---- MODULE Spec2Model ----
(***************************************************************************)
(* Model of the two ring buffer implementations of the repository:         *)
(*   - the root package (ringbuffer.New, errors/, config/), whose          *)
(*     operations keep their source names (Write, GetOne, Close, ...);     *)
(*   - the pkg/ringbuffer package (ringbuffer.NewRingBuffer), whose        *)
(*     operations are prefixed with Pkg (PkgWrite, PkgGetOne, ...).        *)
(* Both share the field names of the RingBuffer struct.  One action is one *)
(* critical section of a goroutine: from acquiring r.mu to releasing it,   *)
(* either by returning or by parking in sync.Cond.Wait.                    *)
(***************************************************************************)
EXTENDS Integers, Sequences, FiniteSets, Bags, TLC

\* ---- bounds of the model ----
MaxSize == 2
NumProcs == 3
MaxVal == 3
MaxReturned == 3

Procs == 1..NumProcs
Vals == 1..MaxVal
\* the zero value of T: what make([]T, size) and ClearBuffer leave in a slot
Zero == 0

VARIABLES
  buf, size, r, w, isFull, err,          \* storage and positions
  impl,                                  \* "root" or "pkg": the package that built the buffer
  block, overwrite, paused,              \* configuration flags
  rTimeout, wTimeout,                    \* 0: wait indefinitely, 1: a positive duration
  preReadBlockHook, preWriteBlockHook,   \* "nil", or the kind of function registered as the hook
  blockedReaders, blockedWriters,        \* advisory counters
  readCond, writeCond,                   \* goroutines parked in readCond.Wait / writeCond.Wait
  mu,                                    \* 0: r.mu is free, p: held by goroutine p
  pc, op, arg,                           \* per goroutine: position, operation in progress, its argument
  timer,                                 \* per goroutine: state of the time.AfterFunc timer of its wait
  ret,                                   \* the result of the operation that returned last
  stored, returned, nItems, nextVal,     \* history: items stored, items handed out, items held, next fresh item
  closed, panicked                       \* Close has run; a goroutine hit a runtime panic

bufVars == <<buf, size, r, w, isFull, err>>
cfgVars == <<impl, block, overwrite, paused, rTimeout, wTimeout, preReadBlockHook, preWriteBlockHook>>
vars == <<buf, size, r, w, isFull, err, impl, block, overwrite, paused, rTimeout, wTimeout,
          preReadBlockHook, preWriteBlockHook,
          blockedReaders, blockedWriters, readCond, writeCond, mu, pc, op, arg, timer,
          ret, stored, returned, nItems, nextVal, closed, panicked>>

\* ---- values of the model ----
NoArg == [items |-> <<>>, n |-> 0]
NoRet == [op |-> "none", err |-> "nil", items |-> <<>>, part2 |-> <<>>, n |-> 0, waited |-> FALSE]

\* the result of a call that returned without ever parking
Result(o, e, its, p2, k) ==
  [op |-> o, err |-> e, items |-> its, part2 |-> p2, n |-> k, waited |-> FALSE]

\* buf[i..j-1] as a sequence (the Go slice expression buf[i:j])
Slice(b, i, j) == [k \in 1..(j - i) |-> b[i + k - 1]]

\* the items held, oldest first, as the positions r, w and the flag isFull define them
ContentsOf(b, sz, rp, wp, full) ==
  IF full THEN Slice(b, rp, sz) \o Slice(b, 0, wp)
  ELSE IF wp >= rp THEN Slice(b, rp, wp)
  ELSE Slice(b, rp, sz) \o Slice(b, 0, wp)

Contents == ContentsOf(buf, size, r, w, isFull)

SeqToBag(s) == [x \in {s[i] : i \in 1..Len(s)} |-> Cardinality({i \in 1..Len(s) : s[i] = x})]

\* k fresh items starting at nextVal
Fresh(k) == [i \in 1..k |-> nextVal + i - 1]

IsEmptyBuf == ~isFull /\ w = r

\* ---- construction ----
\* New / NewRingBuffer: buf = make([]T, size), everything else the zero value.
\* The With* configuration calls are made before the buffer is shared; the
\* configuration is chosen by the Init of each specification.
New(sz) ==
  /\ size = sz
  /\ buf = [i \in 0..(sz - 1) |-> Zero]
  /\ r = 0 /\ w = 0 /\ isFull = FALSE /\ err = "nil"
  /\ paused = FALSE
  /\ blockedReaders = 0 /\ blockedWriters = 0
  /\ readCond = {} /\ writeCond = {}
  /\ mu = 0
  /\ pc = [p \in Procs |-> "idle"]
  /\ op = [p \in Procs |-> "none"]
  /\ arg = [p \in Procs |-> NoArg]
  /\ timer = [p \in Procs |-> "off"]
  /\ ret = NoRet
  /\ stored = <<>> /\ returned = <<>> /\ nItems = 0 /\ nextVal = 1
  /\ closed = FALSE /\ panicked = FALSE

\* no hook is registered: the state New and NewRingBuffer leave
NoHooks == preReadBlockHook = "nil" /\ preWriteBlockHook = "nil"

\* ---- root package: helpers ----

\* readErr(locked=true): io.EOF is reported only once the buffer is drained
readErr ==
  IF err # "nil"
  THEN IF err = "EOF"
       THEN IF w = r /\ ~isFull THEN "EOF" ELSE "nil"
       ELSE err
  ELSE "nil"

\* readErr as evaluated once the read position has moved to rp and isFull is cleared
readErrAfter(rp) == IF err = "EOF" /\ w = rp THEN "EOF" ELSE "nil"

\* Length(true) of the root package
Length ==
  IF err = "EOF" THEN 0
  ELSE IF isFull THEN size
  ELSE IF w >= r THEN w - r
  ELSE size - r + w

availableSpace ==
  IF isFull THEN 0
  ELSE IF w >= r THEN size - w + r
  ELSE r - w

\* Free() of the root package
Free == availableSpace

\* sync.Cond.Signal on writeCond: wakes one parked goroutine, if there is any.
\* pcf is the pc function the caller has computed for itself.
SignalWriteCond(pcf) ==
  IF writeCond = {}
  THEN pc' = pcf /\ UNCHANGED writeCond
  ELSE \E q \in writeCond :
         /\ writeCond' = writeCond \ {q}
         /\ pc' = [pcf EXCEPT ![q] = "woken"]

SignalReadCond(pcf) ==
  IF readCond = {}
  THEN pc' = pcf /\ UNCHANGED readCond
  ELSE \E q \in readCond :
         /\ readCond' = readCond \ {q}
         /\ pc' = [pcf EXCEPT ![q] = "woken"]

\* the pc function after a Broadcast on both condition variables
WakeAll(pcf) == [q \in Procs |-> IF q \in (readCond \cup writeCond) THEN "woken" ELSE pcf[q]]

\* the deferred function of Write and WakeUpOneReader
WakeUpOneReader(pcf) ==
  IF block /\ blockedReaders > 0
  THEN SignalWriteCond(pcf)
  ELSE pc' = pcf /\ UNCHANGED writeCond

\* mutant: a reader that frees a slot signals nobody
WakeUpOneWriterNever(pcf) == pc' = pcf /\ UNCHANGED readCond

\* the deferred function of GetOne, GetN, GetAllView, GetNView and WakeUpOneWriter
WakeUpOneWriter(pcf) ==
  IF block /\ blockedWriters > 0
  THEN SignalReadCond(pcf)
  ELSE pc' = pcf /\ UNCHANGED readCond

Idle(p) == [pc EXCEPT ![p] = "idle"]

\* the result of the call of goroutine p; waited: the call had parked in a Wait
ResultOf(p, o, e, its, p2, k) ==
  [op |-> o, err |-> e, items |-> its, part2 |-> p2, n |-> k, waited |-> (pc[p] = "woken")]

\* mutant: positions never move
AdvanceStuck(pos, n) == pos

\* a position moved n slots forward, modulo the capacity
Advance(pos, n) == (pos + n) % size

\* mutant: every item is stored in slot 0
StoreAtZero(b, pos, v) == [b EXCEPT ![0] = v]

\* r.buf[pos] = v
StoreAt(b, pos, v) == [b EXCEPT ![pos] = v]

\* goroutine p leaves its operation
Leave(p) ==
  /\ op' = [op EXCEPT ![p] = "none"]
  /\ arg' = [arg EXCEPT ![p] = NoArg]
  /\ timer' = [timer EXCEPT ![p] = "off"]

\* waitRead up to readCond.Wait(): p parks on readCond; bw is the counter
\* before the increment
waitRead(p, o, a, bw) ==
  /\ blockedWriters' = bw + 1
  /\ readCond' = readCond \cup {p}
  /\ pc' = [pc EXCEPT ![p] = "wait"]
  /\ op' = [op EXCEPT ![p] = o]
  /\ arg' = [arg EXCEPT ![p] = a]
  /\ timer' = [timer EXCEPT ![p] = IF rTimeout <= 0 THEN "off" ELSE "armed"]
  /\ UNCHANGED <<bufVars, blockedReaders, writeCond, ret, stored, returned, nItems>>

\* waitWrite up to writeCond.Wait(): p parks on writeCond
waitWrite(p, o, a, br) ==
  /\ blockedReaders' = br + 1
  /\ writeCond' = writeCond \cup {p}
  /\ pc' = [pc EXCEPT ![p] = "wait"]
  /\ op' = [op EXCEPT ![p] = o]
  /\ arg' = [arg EXCEPT ![p] = a]
  /\ timer' = [timer EXCEPT ![p] = IF wTimeout <= 0 THEN "off" ELSE "armed"]
  /\ UNCHANGED <<bufVars, blockedWriters, readCond, ret, stored, returned, nItems>>

\* mutant: any wake-up of a timed wait counts as a timeout
TimedOutAlways(p, timeout) == timeout > 0

\* time.Since(start) >= timeout when the goroutine runs again after Wait
TimedOut(p, timeout) == timeout > 0 /\ timer[p] \in {"due", "fired"}

\* a write-side operation returns an error: nothing is stored
WriteFail(p, o, e, bw) ==
  /\ ret' = ResultOf(p, o, e, <<>>, <<>>, 0)
  /\ blockedWriters' = bw
  /\ Leave(p)
  /\ UNCHANGED <<bufVars, blockedReaders, readCond, stored, returned, nItems>>

\* mutant: a failed read moves the read position
ReadFailConsumes(p, o, e, br) ==
  /\ ret' = ResultOf(p, o, e, <<>>, <<>>, 0)
  /\ blockedReaders' = br
  /\ Leave(p)
  /\ r' = Advance(r, 1)
  /\ UNCHANGED <<buf, size, w, isFull, err, blockedWriters, writeCond, stored, returned, nItems>>

\* a read-side operation returns an error: nothing is removed
ReadFail(p, o, e, br) ==
  /\ ret' = ResultOf(p, o, e, <<>>, <<>>, 0)
  /\ blockedReaders' = br
  /\ Leave(p)
  /\ UNCHANGED <<bufVars, blockedWriters, writeCond, stored, returned, nItems>>

\* ---- root package: Write ----

\* mutant: Write never raises the full flag
WriteFullFlagNever(wp, rp, full) == full

\* the position check and the store of Write
WriteFullFlag(wp, rp, full) == IF wp = rp THEN TRUE ELSE full

\* mutant: the hook is called with r.mu still held by the caller
HookUnlockHeld(p) == p

\* r.mu.Unlock() before the hook is called: the holder of r.mu while the hook
\* of goroutine p runs
HookUnlock(p) == 0

\* Write calls r.preWriteBlockHook(): att is wblockAttempts
CallPreWriteBlockHook(p, v, bw, att) ==
  /\ pc' = [pc EXCEPT ![p] = "hookW"]
  /\ op' = [op EXCEPT ![p] = "Write"]
  /\ arg' = [arg EXCEPT ![p] = [items |-> <<v>>, n |-> att]]
  /\ timer' = [timer EXCEPT ![p] = "off"]
  /\ mu' = HookUnlock(p)
  /\ blockedWriters' = bw
  /\ UNCHANGED <<bufVars, blockedReaders, readCond, writeCond, ret, stored, returned, nItems>>

\* mutant: Write waits for room whatever the mode
WriteBlockedParks(p, v, bw, att) ==
  waitRead(p, "Write", [items |-> <<v>>, n |-> att], bw)

\* Write on a full buffer past the hook: "if !r.block" and r.waitRead()
WriteBlocked(p, v, bw, att) ==
  IF ~block
  THEN WriteFail(p, "Write", "ErrIsFull", bw) /\ WakeUpOneReader(Idle(p))
  ELSE waitRead(p, "Write", [items |-> <<v>>, n |-> att], bw)

\* Write from the loop "for r.isFull" on; bw is blockedWriters as the
\* goroutine sees it (after the deferred decrement of waitRead, if it waited)
\* and att is wblockAttempts
WriteLoop(p, v, bw, att) ==
  IF isFull
  THEN IF preWriteBlockHook # "nil"
       THEN CallPreWriteBlockHook(p, v, bw, att)
       ELSE WriteBlocked(p, v, bw, att) /\ UNCHANGED mu
  ELSE /\ buf' = StoreAt(buf, w, v)
       /\ w' = Advance(w, 1)
       /\ isFull' = WriteFullFlag(Advance(w, 1), r, isFull)
       /\ stored' = Append(stored, v)
       /\ nItems' = nItems + 1
       /\ ret' = ResultOf(p, "Write", "nil", <<>>, <<>>, 0)
       /\ blockedWriters' = bw
       /\ Leave(p)
       /\ WakeUpOneReader(Idle(p))
       /\ UNCHANGED <<size, r, err, blockedReaders, readCond, returned, mu>>

\* Write(item), from the call to its return, to readCond.Wait() or to the
\* call of the hook
Write(p) ==
  /\ pc[p] = "idle" /\ mu = 0 /\ ~panicked
  /\ nextVal <= MaxVal
  /\ nextVal' = nextVal + 1
  /\ IF readErr # "nil"
     THEN WriteFail(p, "Write", readErr, blockedWriters) /\ WakeUpOneReader(Idle(p))
          /\ UNCHANGED mu
     ELSE WriteLoop(p, nextVal, blockedWriters, 1)
  /\ UNCHANGED <<cfgVars, closed, panicked>>

\* Write, from the return of readCond.Wait() on
WriteResume(p) ==
  /\ pc[p] = "woken" /\ op[p] = "Write" /\ mu = 0 /\ ~panicked
  /\ IF TimedOut(p, rTimeout)
     THEN WriteFail(p, "Write", "DeadlineExceeded", blockedWriters - 1) /\ WakeUpOneReader(Idle(p))
          /\ UNCHANGED mu
     ELSE WriteLoop(p, arg[p].items[1], blockedWriters - 1, arg[p].n)
  /\ UNCHANGED <<cfgVars, nextVal, closed, panicked>>

\* mutant: a retry does not use up the attempt
RetryAttemptsKept(att) == att

\* wblockAttempts-- / rblockAttempts--
RetryAttempts(att) == att - 1

\* the pre-write-block hook of p runs, r.mu being free.  "true" and "false"
\* return that value and do nothing else; "GetOne" is the hook
\* func() bool { _, err := rb.GetOne(); return err == nil } on a buffer in
\* non-blocking mode with no pre-read-block hook.
PreWriteBlockHook(p) ==
  /\ pc[p] = "hookW" /\ mu = 0 /\ ~panicked
  /\ IF preWriteBlockHook = "GetOne" /\ readErr = "nil" /\ ~(w = r /\ ~isFull)
     THEN /\ r' = Advance(r, 1)
          /\ isFull' = FALSE
          /\ returned' = Append(returned, buf[r])
          /\ nItems' = nItems - 1
          /\ WakeUpOneWriter([pc EXCEPT ![p] =
                IF readErrAfter(Advance(r, 1)) = "nil" THEN "hookWT" ELSE "hookWF"])
          /\ UNCHANGED <<buf, size, w, err>>
     ELSE /\ pc' = [pc EXCEPT ![p] = IF preWriteBlockHook = "true" THEN "hookWT" ELSE "hookWF"]
          /\ UNCHANGED <<bufVars, readCond, returned, nItems>>
  /\ UNCHANGED <<cfgVars, blockedReaders, blockedWriters, writeCond, mu, op, arg, timer, ret,
                 stored, nextVal, closed, panicked>>

\* Write from r.mu.Lock() after the hook on
WriteAfterHook(p) ==
  /\ pc[p] \in {"hookWT", "hookWF"} /\ op[p] = "Write" /\ mu = 0 /\ ~panicked
  /\ IF pc[p] = "hookWT" /\ arg[p].n > 0
     THEN WriteLoop(p, arg[p].items[1], blockedWriters, RetryAttempts(arg[p].n))
     ELSE WriteBlocked(p, arg[p].items[1], blockedWriters, arg[p].n) /\ UNCHANGED mu
  /\ UNCHANGED <<cfgVars, nextVal, closed, panicked>>

\* ---- root package: GetOne ----

\* GetOne calls r.preReadBlockHook(): att is rblockAttempts
CallPreReadBlockHook(p, br, att) ==
  /\ pc' = [pc EXCEPT ![p] = "hookR"]
  /\ op' = [op EXCEPT ![p] = "GetOne"]
  /\ arg' = [arg EXCEPT ![p] = [items |-> <<>>, n |-> att]]
  /\ timer' = [timer EXCEPT ![p] = "off"]
  /\ mu' = HookUnlock(p)
  /\ blockedReaders' = br
  /\ UNCHANGED <<bufVars, blockedWriters, readCond, writeCond, ret, stored, returned, nItems>>

\* GetOne on an empty buffer past the hook: "if !r.block" and r.waitWrite()
GetOneBlocked(p, br, att) ==
  IF ~block
  THEN ReadFail(p, "GetOne", "ErrIsEmpty", br) /\ WakeUpOneWriter(Idle(p))
  ELSE waitWrite(p, "GetOne", [items |-> <<>>, n |-> att], br)

\* GetOne from the loop "for r.w == r.r && !r.isFull" on; att is rblockAttempts
GetOneLoop(p, br, att) ==
  IF w = r /\ ~isFull
  THEN IF preReadBlockHook # "nil"
       THEN CallPreReadBlockHook(p, br, att)
       ELSE GetOneBlocked(p, br, att) /\ UNCHANGED mu
  ELSE /\ r' = Advance(r, 1)
       /\ isFull' = FALSE
       /\ returned' = Append(returned, buf[r])
       /\ nItems' = nItems - 1
       /\ ret' = ResultOf(p, "GetOne", readErrAfter(Advance(r, 1)), <<buf[r]>>, <<>>, 0)
       /\ blockedReaders' = br
       /\ Leave(p)
       /\ WakeUpOneWriter(Idle(p))
       /\ UNCHANGED <<buf, size, w, err, blockedWriters, writeCond, stored, mu>>

GetOne(p) ==
  /\ pc[p] = "idle" /\ mu = 0 /\ ~panicked
  /\ IF readErr # "nil"
     THEN ReadFail(p, "GetOne", readErr, blockedReaders) /\ WakeUpOneWriter(Idle(p))
          /\ UNCHANGED mu
     ELSE GetOneLoop(p, blockedReaders, 1)
  /\ UNCHANGED <<cfgVars, nextVal, closed, panicked>>

\* GetOne, from the return of writeCond.Wait() on
GetOneResume(p) ==
  /\ pc[p] = "woken" /\ op[p] = "GetOne" /\ mu = 0 /\ ~panicked
  /\ IF TimedOut(p, wTimeout)
     THEN ReadFail(p, "GetOne", "DeadlineExceeded", blockedReaders - 1) /\ WakeUpOneWriter(Idle(p))
          /\ UNCHANGED mu
     ELSE IF readErr # "nil"
     THEN ReadFail(p, "GetOne", readErr, blockedReaders - 1) /\ WakeUpOneWriter(Idle(p))
          /\ UNCHANGED mu
     ELSE GetOneLoop(p, blockedReaders - 1, arg[p].n)
  /\ UNCHANGED <<cfgVars, nextVal, closed, panicked>>

\* the values (obj, tryAgain, success) the pre-read-block hook returned, as
\* the position of the caller records them; obj is always nil
HookTryAgain(p) == pc[p] \in {"hookRTT", "hookRTF"}
HookSuccess(p) == pc[p] \in {"hookRTT", "hookRFT"}

\* the pre-read-block hook of p runs, r.mu being free.  "false" returns
\* (nil, false, false) and "retry" returns (nil, true, false), doing nothing
\* else; "Write" is the hook
\* func() (T, bool, bool) { err := rb.Write(item); return nil, err == nil, true }
\* on a buffer in non-blocking mode with no pre-write-block hook; the item it
\* stored is kept in arg[p].items.
PreReadBlockHook(p) ==
  /\ pc[p] = "hookR" /\ mu = 0 /\ ~panicked
  /\ IF preReadBlockHook = "Write"
     THEN /\ nextVal <= MaxVal
          /\ nextVal' = nextVal + 1
          /\ IF readErr = "nil" /\ ~isFull
             THEN /\ buf' = StoreAt(buf, w, nextVal)
                  /\ w' = Advance(w, 1)
                  /\ isFull' = WriteFullFlag(Advance(w, 1), r, isFull)
                  /\ stored' = Append(stored, nextVal)
                  /\ nItems' = nItems + 1
                  /\ arg' = [arg EXCEPT ![p] = [items |-> <<nextVal>>, n |-> arg[p].n]]
                  /\ WakeUpOneReader([pc EXCEPT ![p] = "hookRTT"])
                  /\ UNCHANGED <<size, r, err>>
             ELSE /\ WakeUpOneReader([pc EXCEPT ![p] = "hookRFT"])
                  /\ UNCHANGED <<bufVars, arg, stored, nItems>>
     ELSE /\ pc' = [pc EXCEPT ![p] = IF preReadBlockHook = "retry" THEN "hookRTF" ELSE "hookRFF"]
          /\ UNCHANGED <<bufVars, writeCond, arg, stored, nItems, nextVal>>
  /\ UNCHANGED <<cfgVars, blockedReaders, blockedWriters, readCond, mu, op, timer, ret,
                 returned, closed, panicked>>

\* GetOne from r.mu.Lock() after the hook on
GetOneAfterHook(p) ==
  /\ pc[p] \in {"hookRTT", "hookRTF", "hookRFT", "hookRFF"} /\ op[p] = "GetOne"
  /\ mu = 0 /\ ~panicked
  /\ IF HookTryAgain(p) /\ arg[p].n > 0
     THEN GetOneLoop(p, blockedReaders, RetryAttempts(arg[p].n))
     ELSE IF HookSuccess(p)
     THEN \* return obj, nil
          /\ ret' = ResultOf(p, "GetOne", "nil", <<Zero>>, <<>>, 0)
          /\ Leave(p)
          /\ WakeUpOneWriter(Idle(p))
          /\ UNCHANGED <<bufVars, blockedReaders, blockedWriters, writeCond, stored, returned,
                         nItems, mu>>
     ELSE GetOneBlocked(p, blockedReaders, arg[p].n) /\ UNCHANGED mu
  /\ UNCHANGED <<cfgVars, nextVal, closed, panicked>>

\* ---- root package: the public ClearBuffer, and IsEmpty with its lock ----

\* ClearBuffer called by a user: the function takes no lock.  It reads r.r and
\* r.w for its loop bounds; arg[p].items keeps what it read.
ClearBufferCall(p) ==
  /\ pc[p] = "idle" /\ ~panicked
  /\ pc' = [pc EXCEPT ![p] = "clear"]
  /\ op' = [op EXCEPT ![p] = "ClearBuffer"]
  /\ arg' = [arg EXCEPT ![p] = [items |-> <<r, w>>, n |-> 0]]
  /\ UNCHANGED <<bufVars, cfgVars, blockedReaders, blockedWriters, readCond, writeCond, mu,
                 timer, ret, stored, returned, nItems, nextVal, closed, panicked>>

\* the stores of ClearBuffer: the slots between the positions it read are
\* zeroed, then r.r = 0, r.w = 0, r.isFull = false
ClearBufferStore(p) ==
  /\ pc[p] = "clear" /\ ~panicked
  /\ LET rp == arg[p].items[1]
         wp == arg[p].items[2]
     IN buf' = IF wp > rp
               THEN [i \in 0..(size - 1) |-> IF i >= rp /\ i < wp THEN Zero ELSE buf[i]]
               ELSE [i \in 0..(size - 1) |-> IF i >= rp \/ i < wp THEN Zero ELSE buf[i]]
  /\ r' = 0 /\ w' = 0 /\ isFull' = FALSE
  /\ nItems' = 0
  /\ ret' = ResultOf(p, "ClearBuffer", "nil", <<>>, <<>>, 0)
  /\ pc' = Idle(p)
  /\ Leave(p)
  /\ UNCHANGED <<size, err, cfgVars, blockedReaders, blockedWriters, readCond, writeCond, mu,
                 stored, returned, nextVal, closed, panicked>>

\* IsEmpty: r.mu.Lock()
IsEmptyLock(p) ==
  /\ pc[p] = "idle" /\ mu = 0 /\ ~panicked
  /\ mu' = p
  /\ pc' = [pc EXCEPT ![p] = "locked"]
  /\ op' = [op EXCEPT ![p] = "IsEmpty"]
  /\ UNCHANGED <<bufVars, cfgVars, blockedReaders, blockedWriters, readCond, writeCond, arg,
                 timer, ret, stored, returned, nItems, nextVal, closed, panicked>>

\* IsEmpty: return !r.isFull && r.w == r.r, and the deferred r.mu.Unlock()
IsEmptyReturn(p) ==
  /\ pc[p] = "locked" /\ op[p] = "IsEmpty" /\ mu = p /\ ~panicked
  /\ ret' = ResultOf(p, "IsEmpty", IF ~isFull /\ w = r THEN "true" ELSE "false", <<>>, <<>>, 0)
  /\ mu' = 0
  /\ pc' = Idle(p)
  /\ Leave(p)
  /\ UNCHANGED <<bufVars, cfgVars, blockedReaders, blockedWriters, readCond, writeCond,
                 stored, returned, nItems, nextVal, closed, panicked>>

\* ---- root package: WriteMany ----

\* mutant: WriteMany copies only up to the end of the storage
WriteManyBufNoWrap(items) ==
  [i \in 0..(size - 1) |->
     IF i >= w /\ i < w + Len(items) THEN items[i - w + 1] ELSE buf[i]]

\* the two copy() calls of WriteMany
WriteManyBuf(items) ==
  IF w + Len(items) <= size
  THEN [i \in 0..(size - 1) |->
          IF i >= w /\ i < w + Len(items) THEN items[i - w + 1] ELSE buf[i]]
  ELSE LET firstPart == size - w
       IN [i \in 0..(size - 1) |->
             IF i >= w THEN items[i - w + 1]
             ELSE IF i < Len(items) - firstPart THEN items[firstPart + i + 1]
             ELSE buf[i]]

\* the deferred function of WriteMany signals only when n > 0
WriteManyFail(p, e, bw) ==
  /\ WriteFail(p, "WriteMany", e, bw)
  /\ pc' = Idle(p)
  /\ UNCHANGED writeCond

\* WriteMany from the loop "for len(items) > availableSpace" on
WriteManyLoop(p, items, bw) ==
  IF Len(items) > availableSpace
  THEN IF ~block
       THEN WriteManyFail(p, "ErrIsFull", bw)
       ELSE waitRead(p, "WriteMany", [items |-> items, n |-> 0], bw)
  ELSE /\ buf' = WriteManyBuf(items)
       /\ w' = Advance(w, Len(items))
       /\ isFull' = (Advance(w, Len(items)) = r)
       /\ stored' = stored \o items
       /\ nItems' = nItems + Len(items)
       /\ ret' = ResultOf(p, "WriteMany", "nil", <<>>, <<>>, Len(items))
       /\ blockedWriters' = bw
       /\ Leave(p)
       /\ IF block THEN SignalWriteCond(Idle(p)) ELSE pc' = Idle(p) /\ UNCHANGED writeCond
       /\ UNCHANGED <<size, r, err, blockedReaders, readCond, returned>>

WriteMany(p) ==
  /\ pc[p] = "idle" /\ ~panicked
  /\ \E k \in 0..(size + 1) :
       /\ nextVal + k - 1 <= MaxVal
       /\ nextVal' = nextVal + k
       /\ IF k = 0
          THEN /\ ret' = Result("WriteMany", "nil", <<>>, <<>>, 0)
               /\ UNCHANGED <<bufVars, blockedReaders, blockedWriters, readCond, writeCond,
                              pc, op, arg, timer, stored, returned, nItems>>
          ELSE /\ mu = 0
               /\ IF readErr # "nil"
                  THEN WriteManyFail(p, readErr, blockedWriters)
                  ELSE WriteManyLoop(p, Fresh(k), blockedWriters)
  /\ UNCHANGED <<cfgVars, mu, closed, panicked>>

WriteManyResume(p) ==
  /\ pc[p] = "woken" /\ op[p] = "WriteMany" /\ mu = 0 /\ ~panicked
  /\ IF TimedOut(p, rTimeout)
     THEN WriteManyFail(p, "DeadlineExceeded", blockedWriters - 1)
     ELSE WriteManyLoop(p, arg[p].items, blockedWriters - 1)
  /\ UNCHANGED <<cfgVars, mu, nextVal, closed, panicked>>

\* ---- root package: GetN, GetNView, GetAllView ----

\* the copy of GetN: n items starting at r
GetNItems(n) ==
  IF w > r \/ n <= size - r
  THEN Slice(buf, r, r + n)
  ELSE Slice(buf, r, size) \o Slice(buf, 0, n - (size - r))

\* part1 and part2 of GetNView and PeekNView
ViewPart1(n) == IF w > r \/ n <= size - r THEN Slice(buf, r, r + n) ELSE Slice(buf, r, size)

\* mutant: the second part of a view is always empty
ViewPart2Empty(n) == <<>>

ViewPart2(n) == IF w > r \/ n <= size - r THEN <<>> ELSE Slice(buf, 0, n - (size - r))

\* n items leave the buffer and are handed to the caller as part1, part2
Take(p, o, n, part1, part2, br) ==
  /\ r' = Advance(r, n)
  /\ isFull' = FALSE
  /\ returned' = returned \o part1 \o part2
  /\ nItems' = nItems - n
  /\ ret' = ResultOf(p, o, readErrAfter(Advance(r, n)), part1, part2, 0)
  /\ blockedReaders' = br
  /\ Leave(p)
  /\ WakeUpOneWriter(Idle(p))
  /\ UNCHANGED <<buf, size, w, err, blockedWriters, writeCond, stored>>

\* GetN from the loop "for n > availableItems" on
GetNLoop(p, n, br) ==
  IF n > Length
  THEN IF ~block
       THEN ReadFail(p, "GetN", "ErrIsEmpty", br) /\ WakeUpOneWriter(Idle(p))
       ELSE waitWrite(p, "GetN", [items |-> <<>>, n |-> n], br)
  ELSE Take(p, "GetN", n, GetNItems(n), <<>>, br)

\* an operation that returns before it takes the lock
ReturnUnlocked(o, e) ==
  /\ ret' = Result(o, e, <<>>, <<>>, 0)
  /\ UNCHANGED <<bufVars, blockedReaders, blockedWriters, readCond, writeCond,
                 pc, op, arg, timer, stored, returned, nItems>>

\* GetN(n), from the call to its return or to writeCond.Wait()
GetNOf(p, n) ==
  /\ pc[p] = "idle" /\ ~panicked
  /\ IF n <= 0
     THEN ReturnUnlocked("GetN", "ErrInvalidLength")
     ELSE /\ mu = 0
          /\ IF readErr # "nil"
             THEN ReadFail(p, "GetN", readErr, blockedReaders) /\ WakeUpOneWriter(Idle(p))
             ELSE GetNLoop(p, n, blockedReaders)
  /\ UNCHANGED <<cfgVars, mu, nextVal, closed, panicked>>

GetN(p) == \E n \in 0..(size + 1) : GetNOf(p, n)

GetNResume(p) ==
  /\ pc[p] = "woken" /\ op[p] = "GetN" /\ mu = 0 /\ ~panicked
  /\ IF TimedOut(p, wTimeout)
     THEN ReadFail(p, "GetN", "DeadlineExceeded", blockedReaders - 1) /\ WakeUpOneWriter(Idle(p))
     ELSE IF readErr # "nil"
     THEN ReadFail(p, "GetN", readErr, blockedReaders - 1) /\ WakeUpOneWriter(Idle(p))
     ELSE GetNLoop(p, arg[p].n, blockedReaders - 1)
  /\ UNCHANGED <<cfgVars, mu, nextVal, closed, panicked>>

\* GetNView from the loop "for available < n || r.w == r.r && !r.isFull" on
GetNViewLoop(p, n, br) ==
  IF Length < n \/ (w = r /\ ~isFull)
  THEN IF ~block
       THEN ReadFail(p, "GetNView", "ErrIsEmpty", br) /\ WakeUpOneWriter(Idle(p))
       ELSE waitWrite(p, "GetNView", [items |-> <<>>, n |-> n], br)
  ELSE Take(p, "GetNView", n, ViewPart1(n), ViewPart2(n), br)

\* GetNView(n), from the call to its return or to writeCond.Wait()
GetNViewOf(p, n) ==
  /\ pc[p] = "idle" /\ ~panicked
  /\ IF n <= 0 \/ n > size
     THEN ReturnUnlocked("GetNView", "ErrInvalidLength")
     ELSE /\ mu = 0
          /\ IF readErr # "nil"
             THEN ReadFail(p, "GetNView", readErr, blockedReaders) /\ WakeUpOneWriter(Idle(p))
             ELSE GetNViewLoop(p, n, blockedReaders)
  /\ UNCHANGED <<cfgVars, mu, nextVal, closed, panicked>>

GetNView(p) == \E n \in 0..(size + 1) : GetNViewOf(p, n)

GetNViewResume(p) ==
  /\ pc[p] = "woken" /\ op[p] = "GetNView" /\ mu = 0 /\ ~panicked
  /\ IF TimedOut(p, wTimeout)
     THEN ReadFail(p, "GetNView", "DeadlineExceeded", blockedReaders - 1) /\ WakeUpOneWriter(Idle(p))
     ELSE IF readErr # "nil"
     THEN ReadFail(p, "GetNView", readErr, blockedReaders - 1) /\ WakeUpOneWriter(Idle(p))
     ELSE GetNViewLoop(p, arg[p].n, blockedReaders - 1)
  /\ UNCHANGED <<cfgVars, mu, nextVal, closed, panicked>>

GetAllView(p) ==
  /\ pc[p] = "idle" /\ mu = 0 /\ ~panicked
  /\ IF readErr # "nil"
     THEN ReadFail(p, "GetAllView", readErr, blockedReaders) /\ WakeUpOneWriter(Idle(p))
     ELSE IF w = r /\ ~isFull
     THEN ReadFail(p, "GetAllView", "ErrIsEmpty", blockedReaders) /\ WakeUpOneWriter(Idle(p))
     ELSE LET part1 == IF w > r THEN Slice(buf, r, w) ELSE Slice(buf, r, size)
              part2 == IF w > r THEN <<>> ELSE Slice(buf, 0, w)
          IN /\ r' = w
             /\ isFull' = FALSE
             /\ returned' = returned \o part1 \o part2
             /\ nItems' = nItems - (Len(part1) + Len(part2))
             /\ ret' = Result("GetAllView", readErrAfter(w), part1, part2, 0)
             /\ Leave(p)
             /\ WakeUpOneWriter(Idle(p))
             /\ UNCHANGED <<buf, size, w, err, blockedReaders, blockedWriters, writeCond, stored>>
  /\ UNCHANGED <<cfgVars, mu, nextVal, closed, panicked>>

\* ---- root package: PeekOne, PeekN, PeekNView ----

\* mutant: a peek moves the read position as a read does
ReturnLockedConsumes(o, e, its, p2, k) ==
  /\ ret' = Result(o, e, its, p2, k)
  /\ r' = (IF e = "nil" THEN Advance(r, Len(its) + Len(p2)) ELSE r)
  /\ isFull' = (IF e = "nil" THEN FALSE ELSE isFull)
  /\ UNCHANGED <<buf, size, w, err, blockedReaders, blockedWriters, readCond, writeCond,
                 pc, op, arg, timer, stored, returned, nItems>>

\* an operation that holds the lock, changes nothing and signals nobody; k is
\* the argument n of the call
ReturnLocked(o, e, its, p2, k) ==
  /\ ret' = Result(o, e, its, p2, k)
  /\ UNCHANGED <<bufVars, blockedReaders, blockedWriters, readCond, writeCond,
                 pc, op, arg, timer, stored, returned, nItems>>

PeekOne(p) ==
  /\ pc[p] = "idle" /\ mu = 0 /\ ~panicked
  /\ IF readErr # "nil" THEN ReturnLocked("PeekOne", readErr, <<>>, <<>>, 0)
     ELSE IF w = r /\ ~isFull THEN ReturnLocked("PeekOne", "ErrIsEmpty", <<>>, <<>>, 0)
     ELSE ReturnLocked("PeekOne", "nil", <<buf[r]>>, <<>>, 0)
  /\ UNCHANGED <<cfgVars, mu, nextVal, closed, panicked>>

\* mutant: PeekN copies only up to the end of the storage
PeekNItemsNoWrap(n) ==
  IF r + n <= size THEN Slice(buf, r, r + n) ELSE Slice(buf, r, size)

\* the copy of PeekN
PeekNItems(n) ==
  IF w > r THEN Slice(buf, r, r + n)
  ELSE LET c1 == size - r
       IN IF c1 >= n THEN Slice(buf, r, r + n)
          ELSE Slice(buf, r, size) \o Slice(buf, 0, n - c1)

\* mutant: the peeks do not test for an empty buffer
PeekErrNoEmpty(n) ==
  IF readErr # "nil" THEN readErr
  ELSE IF n > Length THEN "ErrTooMuchDataToPeek"
  ELSE "nil"

\* the checks PeekN and PeekNView make once they hold the lock, in their order
PeekErr(n) ==
  IF readErr # "nil" THEN readErr
  ELSE IF w = r /\ ~isFull THEN "ErrIsEmpty"
  ELSE IF n > Length THEN "ErrTooMuchDataToPeek"
  ELSE "nil"

PeekNOf(p, n) ==
  /\ pc[p] = "idle" /\ ~panicked
  /\ IF n <= 0 THEN ReturnUnlocked("PeekN", "ErrInvalidLength")
     ELSE /\ mu = 0
          /\ IF PeekErr(n) # "nil" THEN ReturnLocked("PeekN", PeekErr(n), <<>>, <<>>, n)
             ELSE ReturnLocked("PeekN", "nil", PeekNItems(n), <<>>, n)
  /\ UNCHANGED <<cfgVars, mu, nextVal, closed, panicked>>

PeekN(p) == \E n \in (0 - 1)..(size + 1) : PeekNOf(p, n)

PeekNViewOf(p, n) ==
  /\ pc[p] = "idle" /\ ~panicked
  /\ IF n <= 0 THEN ReturnUnlocked("PeekNView", "ErrInvalidLength")
     ELSE /\ mu = 0
          /\ IF PeekErr(n) # "nil" THEN ReturnLocked("PeekNView", PeekErr(n), <<>>, <<>>, n)
             ELSE ReturnLocked("PeekNView", "nil", ViewPart1(n), ViewPart2(n), n)
  /\ UNCHANGED <<cfgVars, mu, nextVal, closed, panicked>>

PeekNView(p) == \E n \in (0 - 1)..(size + 1) : PeekNViewOf(p, n)

\* ---- root package: ClearBuffer, Close ----

\* the storage after ClearBuffer has zeroed the live slots
ClearBuffer ==
  IF w > r
  THEN [i \in 0..(size - 1) |-> IF i >= r /\ i < w THEN Zero ELSE buf[i]]
  ELSE [i \in 0..(size - 1) |-> IF i >= r \/ i < w THEN Zero ELSE buf[i]]

\* mutant: Close does not record the terminal error
setErrDropped(e) == err

\* setErr with a sticky error (io.EOF): the error is stored
setErr(e) == IF err # "nil" /\ err # "EOF" THEN err ELSE e

Close(p) ==
  /\ pc[p] = "idle" /\ mu = 0 /\ ~panicked
  /\ ret' = Result("Close", "nil", <<>>, <<>>, 0)
  /\ IF err = "EOF"
     THEN UNCHANGED <<bufVars, readCond, writeCond, pc, nItems, closed>>
     ELSE /\ err' = setErr("EOF")
          /\ buf' = ClearBuffer
          /\ r' = 0 /\ w' = 0 /\ isFull' = FALSE
          /\ nItems' = 0
          /\ closed' = TRUE
          /\ IF block
             THEN pc' = WakeAll(pc) /\ readCond' = {} /\ writeCond' = {}
             ELSE UNCHANGED <<pc, readCond, writeCond>>
          /\ UNCHANGED size
  /\ UNCHANGED <<cfgVars, blockedReaders, blockedWriters, mu, op, arg, timer,
                 stored, returned, nextVal, panicked>>

\* ---- root package: calls through a nil *RingBuffer ----

NilOps ==
  {"Write", "WriteMany", "GetOne", "GetN", "PeekOne", "PeekN", "PeekNView",
   "GetAllView", "GetNView"}

\* what operation o does when its receiver r is nil, up to its first use of a
\* field of r; n is the argument n, or len(items) for WriteMany.  Write,
\* GetOne, GetN, PeekOne and PeekN test r == nil; WriteMany, PeekNView and
\* GetAllView go on to r.mu.Lock() and GetNView to r.size, a nil dereference.
NilResult(o, n) ==
  CASE o \in {"Write", "GetOne", "PeekOne"} -> "ErrNilBuffer"
    [] o = "GetN" -> "ErrNilBuffer"
    [] o = "PeekN" -> IF n <= 0 THEN "ErrInvalidLength" ELSE "ErrNilBuffer"
    [] o = "WriteMany" -> IF n = 0 THEN "nil" ELSE "panic"
    [] o = "PeekNView" -> IF n <= 0 THEN "ErrInvalidLength" ELSE "panic"
    [] o = "GetNView" -> IF n <= 0 THEN "ErrInvalidLength" ELSE "panic"
    [] o = "GetAllView" -> "panic"

\* goroutine p calls operation o with argument n through a nil handle; the
\* buffer the other goroutines share is not involved
NilCallOf(p, o, n) ==
  /\ pc[p] = "idle" /\ ~panicked
  /\ ret' = Result(o, NilResult(o, n), <<>>, <<>>, n)
  /\ panicked' = (NilResult(o, n) = "panic")
  /\ UNCHANGED <<bufVars, cfgVars, blockedReaders, blockedWriters, readCond, writeCond,
                 mu, pc, op, arg, timer, stored, returned, nItems, nextVal, closed>>

NilCall(p) == \E o \in NilOps : \E n \in 0..1 : NilCallOf(p, o, n)

\* ---- timers of waitRead / waitWrite ----

WriteSide(o) == o \in {"Write", "WriteMany"}

\* the duration of the wait of p has passed: time.Since(start) >= timeout from now on
DeadlinePass(p) ==
  /\ pc[p] \in {"wait", "woken"} /\ timer[p] = "armed" /\ ~panicked
  /\ timer' = [timer EXCEPT ![p] = "due"]
  /\ UNCHANGED <<bufVars, cfgVars, blockedReaders, blockedWriters, readCond, writeCond,
                 mu, pc, op, arg, ret, stored, returned, nItems, nextVal, closed, panicked>>

\* the function given to time.AfterFunc runs: Broadcast on the condition p waits on
TimerFire(p) ==
  /\ pc[p] \in {"wait", "woken"} /\ timer[p] = "due" /\ ~panicked
  /\ timer' = [timer EXCEPT ![p] = "fired"]
  /\ IF WriteSide(op[p])
     THEN /\ pc' = [q \in Procs |-> IF q \in readCond THEN "woken" ELSE pc[q]]
          /\ readCond' = {}
          /\ UNCHANGED writeCond
     ELSE /\ pc' = [q \in Procs |-> IF q \in writeCond THEN "woken" ELSE pc[q]]
          /\ writeCond' = {}
          /\ UNCHANGED readCond
  /\ UNCHANGED <<bufVars, cfgVars, blockedReaders, blockedWriters,
                 mu, op, arg, ret, stored, returned, nItems, nextVal, closed, panicked>>

\* ---- pkg/ringbuffer package ----

\* blockedReaders and blockedWriters are atomic.Uint32.  A counter value c is
\* kept as the integer congruent to c modulo 2^32 of least magnitude: -1 stands
\* for 2^32 - 1, the result of Add(^uint32(0)) on a zero counter.
\* blockedReaders.Add(1), blockedReaders.Add(^uint32(0)), Load() > 0
Inc32(x) == x + 1
Dec32(x) == x - 1
Positive32(x) == x # 0

\* Length(true) of pkg/ringbuffer
PkgLength ==
  IF isFull THEN size
  ELSE IF w >= r THEN w - r
  ELSE size - r + w

\* a pkg operation returns holding the lock it took, having changed nothing
PkgReturn(p, o, e, its) ==
  /\ ret' = ResultOf(p, o, e, its, <<>>, 0)
  /\ pc' = Idle(p)
  /\ Leave(p)
  /\ UNCHANGED <<bufVars, readCond, writeCond, stored, returned, nItems>>

\* Write from the loop "for r.isFull" on, with the lock held; bw is
\* blockedWriters as the goroutine sees it
PkgWriteLoop(p, v, bw) ==
  IF isFull
  THEN \* handleBufferFull
       IF ~block
       THEN PkgReturn(p, "Write", "ErrIsFull", <<>>) /\ blockedWriters' = bw /\ mu' = 0
       ELSE IF overwrite
       THEN \* the oldest item is dropped, isFull stays set: back to the loop head
            /\ r' = Advance(r, 1)
            /\ isFull' = (IF Advance(r, 1) = w THEN TRUE ELSE isFull)
            /\ pc' = [pc EXCEPT ![p] = "loop"]
            /\ op' = [op EXCEPT ![p] = "Write"]
            /\ arg' = [arg EXCEPT ![p] = [items |-> <<v>>, n |-> 0]]
            /\ mu' = p
            /\ blockedWriters' = bw
            /\ UNCHANGED <<buf, size, w, err, readCond, writeCond, timer, ret,
                           stored, returned, nItems>>
       ELSE \* r.mu.Unlock() before checkPreWriteBlock
            /\ pc' = [pc EXCEPT ![p] = "preW"]
            /\ op' = [op EXCEPT ![p] = "Write"]
            /\ arg' = [arg EXCEPT ![p] = [items |-> <<v>>, n |-> 0]]
            /\ mu' = 0
            /\ blockedWriters' = bw
            /\ UNCHANGED <<bufVars, readCond, writeCond, timer, ret, stored, returned, nItems>>
  ELSE /\ buf' = StoreAt(buf, w, v)
       /\ w' = Advance(w, 1)
       /\ isFull' = (Advance(w, 1) = r)
       /\ stored' = Append(stored, v)
       /\ nItems' = nItems + 1
       /\ ret' = ResultOf(p, "Write", "nil", <<>>, <<>>, 0)
       /\ blockedWriters' = bw
       /\ mu' = 0
       /\ Leave(p)
       /\ IF block /\ Positive32(blockedReaders)
          THEN SignalWriteCond(Idle(p))
          ELSE pc' = Idle(p) /\ UNCHANGED writeCond
       /\ UNCHANGED <<size, r, err, readCond, returned>>

PkgWrite(p) ==
  /\ pc[p] = "idle" /\ mu = 0 /\ ~panicked
  /\ nextVal <= MaxVal
  /\ nextVal' = nextVal + 1
  /\ IF paused
     THEN PkgReturn(p, "Write", "nil", <<>>) /\ UNCHANGED <<blockedWriters, mu>>
     ELSE PkgWriteLoop(p, nextVal, blockedWriters)
  /\ UNCHANGED <<cfgVars, blockedReaders, closed, panicked>>

\* Write spinning in "for r.isFull" with the lock held (overwrite in blocking mode)
PkgWriteSpin(p) ==
  /\ pc[p] = "loop" /\ op[p] = "Write" /\ mu = p /\ ~panicked
  /\ PkgWriteLoop(p, arg[p].items[1], blockedWriters)
  /\ UNCHANGED <<cfgVars, blockedReaders, nextVal, closed, panicked>>

\* handleBufferFull from r.mu.Lock() after checkPreWriteBlock to readCond.Wait()
PkgWriteRelock(p) ==
  /\ pc[p] = "preW" /\ op[p] \in {"Write", "WriteMany"} /\ mu = 0 /\ ~panicked
  /\ rTimeout <= 0
  /\ preWriteBlockHook # "true"
  /\ blockedWriters' = Inc32(blockedWriters)
  /\ readCond' = readCond \cup {p}
  /\ pc' = [pc EXCEPT ![p] = "wait"]
  /\ UNCHANGED <<bufVars, cfgVars, blockedReaders, writeCond, mu, op, arg, timer, ret,
                 stored, returned, nItems, nextVal, closed, panicked>>

\* Write from the return of readCond.Wait() on
PkgWriteResume(p) ==
  /\ pc[p] = "woken" /\ op[p] = "Write" /\ mu = 0 /\ ~panicked
  /\ PkgWriteLoop(p, arg[p].items[1], Dec32(blockedWriters))
  /\ UNCHANGED <<cfgVars, blockedReaders, nextVal, closed, panicked>>

\* GetOne from the loop "for !r.isFull && r.r == r.w" on, with the lock held
PkgGetOneLoop(p, br) ==
  IF ~isFull /\ r = w
  THEN \* handleBufferEmpty
       IF ~block
       THEN PkgReturn(p, "GetOne", "ErrIsEmpty", <<>>) /\ blockedReaders' = br /\ mu' = 0
       ELSE \* blockedReaders.Add(1); r.mu.Unlock() before checkPreReadBlock
            /\ blockedReaders' = Inc32(br)
            /\ pc' = [pc EXCEPT ![p] = "preR"]
            /\ op' = [op EXCEPT ![p] = "GetOne"]
            /\ mu' = 0
            /\ UNCHANGED <<bufVars, readCond, writeCond, arg, timer, ret, stored, returned, nItems>>
  ELSE /\ r' = Advance(r, 1)
       /\ isFull' = FALSE
       /\ returned' = Append(returned, buf[r])
       /\ nItems' = nItems - 1
       /\ ret' = ResultOf(p, "GetOne", "nil", <<buf[r]>>, <<>>, 0)
       /\ blockedReaders' = br
       /\ mu' = 0
       /\ Leave(p)
       /\ IF block /\ Positive32(blockedWriters)
          THEN SignalReadCond(Idle(p))
          ELSE pc' = Idle(p) /\ UNCHANGED readCond
       /\ UNCHANGED <<buf, size, w, err, writeCond, stored>>

PkgGetOne(p) ==
  /\ pc[p] = "idle" /\ mu = 0 /\ ~panicked
  /\ IF paused
     THEN PkgReturn(p, "GetOne", "nil", <<Zero>>) /\ UNCHANGED <<blockedReaders, mu>>
     ELSE PkgGetOneLoop(p, blockedReaders)
  /\ UNCHANGED <<cfgVars, blockedWriters, nextVal, closed, panicked>>

\* handleBufferEmpty from r.mu.Lock() after checkPreReadBlock to writeCond.Wait()
PkgGetOneRelock(p) ==
  /\ pc[p] = "preR" /\ op[p] \in {"GetOne", "Read"} /\ mu = 0 /\ ~panicked
  /\ wTimeout <= 0
  /\ preReadBlockHook # "true"
  /\ writeCond' = writeCond \cup {p}
  /\ pc' = [pc EXCEPT ![p] = "wait"]
  /\ UNCHANGED <<bufVars, cfgVars, blockedReaders, blockedWriters, readCond, mu, op, arg,
                 timer, ret, stored, returned, nItems, nextVal, closed, panicked>>

\* GetOne from the return of writeCond.Wait() on
PkgGetOneResume(p) ==
  /\ pc[p] = "woken" /\ op[p] = "GetOne" /\ mu = 0 /\ ~panicked
  /\ PkgGetOneLoop(p, Dec32(blockedReaders))
  /\ UNCHANGED <<cfgVars, blockedWriters, nextVal, closed, panicked>>

\* ---- pkg/ringbuffer: GetN ----
\* GetN takes no lock of its own: it calls Length(false) once or twice and
\* then GetOne n times.  arg[p].n is n and arg[p].items the items collected.

\* GetN(n) up to the first r.Length(false)
PkgGetNOf(p, n) ==
  /\ pc[p] = "idle" /\ ~panicked
  /\ IF n <= 0
     THEN /\ ret' = Result("GetN", "nil", <<>>, <<>>, n)
          /\ UNCHANGED <<pc, op, arg>>
     ELSE /\ mu = 0
          /\ pc' = [pc EXCEPT ![p] = IF n > PkgLength THEN "len" ELSE "many"]
          /\ op' = [op EXCEPT ![p] = "GetN"]
          /\ arg' = [arg EXCEPT ![p] = [items |-> <<>>, n |-> n]]
          /\ UNCHANGED ret
  /\ UNCHANGED <<bufVars, cfgVars, blockedReaders, blockedWriters, readCond, writeCond, mu,
                 timer, stored, returned, nItems, nextVal, closed, panicked>>

PkgGetN(p) == \E n \in 0..(size + 1) : PkgGetNOf(p, n)

\* n = r.Length(false), the second call; with n = 0 the loop is skipped and
\* GetN returns no items and nil
PkgGetNLength(p) ==
  /\ pc[p] = "len" /\ op[p] = "GetN" /\ mu = 0 /\ ~panicked
  /\ IF PkgLength = 0
     THEN /\ ret' = ResultOf(p, "GetN", "nil", <<>>, <<>>, 0)
          /\ pc' = Idle(p)
          /\ Leave(p)
     ELSE /\ pc' = [pc EXCEPT ![p] = "many"]
          /\ arg' = [arg EXCEPT ![p] = [items |-> <<>>, n |-> PkgLength]]
          /\ UNCHANGED <<op, timer, ret>>
  /\ UNCHANGED <<bufVars, cfgVars, blockedReaders, blockedWriters, readCond, writeCond, mu,
                 stored, returned, nItems, nextVal, closed, panicked>>

\* GetN after its GetOne returned item and nil: append, and return when n
\* items are collected
PkgGetNNext(p, item, pcf) ==
  LET its == Append(arg[p].items, item)
  IN IF Len(its) = arg[p].n
     THEN /\ ret' = ResultOf(p, "GetN", "nil", its, <<>>, arg[p].n)
          /\ Leave(p)
          /\ pcf = Idle(p)
     ELSE /\ arg' = [arg EXCEPT ![p] = [items |-> its, n |-> arg[p].n]]
          /\ pcf = [pc EXCEPT ![p] = "many"]
          /\ UNCHANGED <<op, timer, ret>>

\* the next r.GetOne() of the loop of GetN
PkgGetNStep(p) ==
  /\ pc[p] = "many" /\ op[p] = "GetN" /\ mu = 0 /\ ~panicked
  /\ IF paused
     THEN /\ \E pcf \in {Idle(p), [pc EXCEPT ![p] = "many"]} :
               PkgGetNNext(p, Zero, pcf) /\ pc' = pcf
          /\ UNCHANGED <<bufVars, blockedReaders, readCond, returned, nItems>>
     ELSE IF ~isFull /\ r = w
     THEN \* handleBufferEmpty
          IF ~block
          THEN /\ ret' = ResultOf(p, "GetN", "ErrIsEmpty", arg[p].items, <<>>, arg[p].n)
               /\ pc' = Idle(p)
               /\ Leave(p)
               /\ UNCHANGED <<bufVars, blockedReaders, readCond, returned, nItems>>
          ELSE /\ blockedReaders' = Inc32(blockedReaders)
               /\ pc' = [pc EXCEPT ![p] = "preR"]
               /\ UNCHANGED <<bufVars, readCond, op, arg, timer, ret, returned, nItems>>
     ELSE /\ r' = Advance(r, 1)
          /\ isFull' = FALSE
          /\ returned' = Append(returned, buf[r])
          /\ nItems' = nItems - 1
          /\ \E pcf \in {Idle(p), [pc EXCEPT ![p] = "many"]} :
               /\ PkgGetNNext(p, buf[r], pcf)
               /\ IF block /\ Positive32(blockedWriters)
                  THEN SignalReadCond(pcf)
                  ELSE pc' = pcf /\ UNCHANGED readCond
          /\ UNCHANGED <<buf, size, w, err, blockedReaders>>
  /\ UNCHANGED <<cfgVars, blockedWriters, writeCond, mu, stored, nextVal, closed, panicked>>

\* ---- pkg/ringbuffer: Read ----

\* the items the loop "for i := range toRead" of Read copies into data
ReadItems(k) == SubSeq(Contents, 1, k)

\* Read from "available := r.Length(true)" on, with the lock held; n is
\* len(data).  r.writeCond.Signal() is called whatever the counters say, and
\* writeCond is nil unless WithBlocking(true) was called.
PkgReadTake(p, n, br) ==
  IF PkgLength = 0
  THEN /\ PkgReturn(p, "Read", "ErrIsEmpty", <<>>)
       /\ blockedReaders' = br
       /\ mu' = 0
       /\ UNCHANGED panicked
  ELSE LET toRead == IF n < PkgLength THEN n ELSE PkgLength
       IN /\ r' = Advance(r, toRead)
          /\ isFull' = FALSE
          /\ returned' = returned \o ReadItems(toRead)
          /\ nItems' = nItems - toRead
          /\ blockedReaders' = br
          /\ mu' = 0
          /\ Leave(p)
          /\ IF block
             THEN /\ ret' = ResultOf(p, "Read", "nil", ReadItems(toRead), <<>>, toRead)
                  /\ SignalWriteCond(Idle(p))
                  /\ UNCHANGED panicked
             ELSE /\ ret' = ResultOf(p, "Read", "panic", ReadItems(toRead), <<>>, toRead)
                  /\ panicked' = TRUE
                  /\ pc' = Idle(p)
                  /\ UNCHANGED writeCond
          /\ UNCHANGED <<buf, size, w, err, readCond, stored>>

\* Read(data) with len(data) = n, from the call to its return or to the
\* unlock before checkPreReadBlock; handleBufferEmpty is called in an "if"
PkgReadOf(p, n) ==
  /\ pc[p] = "idle" /\ mu = 0 /\ ~panicked
  /\ IF n = 0 \/ paused
     THEN PkgReturn(p, "Read", "nil", <<>>) /\ UNCHANGED <<blockedReaders, mu, panicked>>
     ELSE IF ~isFull /\ r = w
     THEN IF ~block
          THEN PkgReturn(p, "Read", "ErrIsEmpty", <<>>)
               /\ UNCHANGED <<blockedReaders, mu, panicked>>
          ELSE /\ blockedReaders' = Inc32(blockedReaders)
               /\ pc' = [pc EXCEPT ![p] = "preR"]
               /\ op' = [op EXCEPT ![p] = "Read"]
               /\ arg' = [arg EXCEPT ![p] = [items |-> <<>>, n |-> n]]
               /\ mu' = 0
               /\ UNCHANGED <<bufVars, readCond, writeCond, timer, ret, stored, returned,
                              nItems, panicked>>
     ELSE PkgReadTake(p, n, blockedReaders)
  /\ UNCHANGED <<cfgVars, blockedWriters, nextVal, closed>>

PkgRead(p) == \E n \in 0..size : PkgReadOf(p, n)

\* Read from the return of writeCond.Wait() on
PkgReadResume(p) ==
  /\ pc[p] = "woken" /\ op[p] = "Read" /\ mu = 0 /\ ~panicked
  /\ PkgReadTake(p, arg[p].n, Dec32(blockedReaders))
  /\ UNCHANGED <<cfgVars, blockedWriters, nextVal, closed>>

\* ---- pkg/ringbuffer: pre-block hooks ----
\* The hooks are func() bool: "true" and "false" return that value and change
\* nothing.  arg[p].n counts the times the Write of p has come back to the head
\* of its loop from a hook that returned true; MaxSpin bounds the count.
MaxSpin == 3

\* blockedWriters.Add(^uint32(0)) / blockedReaders.Add(^uint32(0)) in
\* checkPreWriteBlock / checkPreReadBlock
HookDec(x) == Dec32(x)

\* checkPreWriteBlock with a hook that returned true: r.mu.Lock(), the
\* decrement, handleBufferFull returns nil and Write is at "for r.isFull" again:
\* on a full buffer it calls handleBufferFull, which unlocks for the hook
PkgWriteHooked(p) ==
  /\ pc[p] = "preW" /\ op[p] = "Write" /\ mu = 0 /\ ~panicked
  /\ preWriteBlockHook = "true"
  /\ IF isFull
     THEN /\ arg[p].n < MaxSpin
          /\ arg' = [arg EXCEPT ![p] = [items |-> arg[p].items, n |-> arg[p].n + 1]]
          /\ blockedWriters' = HookDec(blockedWriters)
          /\ UNCHANGED <<bufVars, readCond, writeCond, mu, pc, op, timer, ret, stored,
                         returned, nItems>>
     ELSE PkgWriteLoop(p, arg[p].items[1], HookDec(blockedWriters))
  /\ UNCHANGED <<cfgVars, blockedReaders, nextVal, closed, panicked>>

\* checkPreReadBlock with a hook that returned true: r.mu.Lock(), the
\* decrement, and handleBufferEmpty returns ErrIsEmpty to GetOne or Read, which
\* returns it
PkgGetOneHooked(p) ==
  /\ pc[p] = "preR" /\ op[p] \in {"GetOne", "Read"} /\ mu = 0 /\ ~panicked
  /\ preReadBlockHook = "true"
  /\ PkgReturn(p, op[p], "ErrIsEmpty", <<>>)
  /\ blockedReaders' = HookDec(blockedReaders)
  /\ UNCHANGED <<cfgVars, blockedWriters, mu, nextVal, closed, panicked>>

\* Close of pkg/ringbuffer; readCond and writeCond are nil unless WithBlocking(true)
\* was called, and broadcastConditions dereferences them
PkgClose(p) ==
  /\ pc[p] = "idle" /\ mu = 0 /\ ~panicked
  /\ r' = 0 /\ w' = 0 /\ isFull' = FALSE /\ err' = "nil"
  /\ paused' = TRUE
  /\ nItems' = 0
  /\ closed' = TRUE
  /\ IF block
     THEN /\ pc' = WakeAll(pc) /\ readCond' = {} /\ writeCond' = {}
          /\ ret' = Result("Close", "nil", <<>>, <<>>, 0)
          /\ UNCHANGED panicked
     ELSE /\ panicked' = TRUE
          /\ ret' = Result("Close", "panic", <<>>, <<>>, 0)
          /\ UNCHANGED <<pc, readCond, writeCond>>
  /\ UNCHANGED <<buf, size, impl, block, overwrite, rTimeout, wTimeout, preReadBlockHook, preWriteBlockHook,
                 blockedReaders,
                 blockedWriters, mu, op, arg, timer, stored, returned, nextVal>>

\* ---- pkg/ringbuffer: Flush, Reset, Pause, Resume ----

\* updateBufferState: r.isFull = r.w == r.r, evaluated on the positions rp, wp
updateBufferState(rp, wp) == wp = rp

\* Length(true) of pkg/ringbuffer on the positions rp, wp and the flag full
PkgLengthOf(rp, wp, full) ==
  IF full THEN size
  ELSE IF wp >= rp THEN wp - rp
  ELSE size - rp + wp

\* the result of Flush and Reset; told and n are the arguments that
\* notifyStateChange passes to onStateChangeHook: r.isFull and r.Length(true)
StateChangeResult(o, e, full, len) ==
  [op |-> o, err |-> e, items |-> <<>>, part2 |-> <<>>, n |-> len, waited |-> FALSE,
   told |-> full]

\* broadcastConditions, called with the lock held by Flush and Reset: the
\* condition variables are nil unless WithBlocking(true) was called
PkgBroadcast(o, full, len) ==
  IF block
  THEN /\ pc' = WakeAll(pc) /\ readCond' = {} /\ writeCond' = {}
       /\ ret' = StateChangeResult(o, "nil", full, len)
       /\ UNCHANGED panicked
  ELSE /\ panicked' = TRUE
       /\ ret' = StateChangeResult(o, "panic", full, len)
       /\ UNCHANGED <<pc, readCond, writeCond>>

PkgFlush(p) ==
  /\ pc[p] = "idle" /\ mu = 0 /\ ~panicked
  /\ r' = 0 /\ w' = 0
  /\ isFull' = updateBufferState(0, 0)
  /\ nItems' = 0
  /\ PkgBroadcast("Flush", updateBufferState(0, 0), PkgLengthOf(0, 0, updateBufferState(0, 0)))
  /\ UNCHANGED <<buf, size, err, cfgVars, blockedReaders, blockedWriters, mu, op, arg, timer,
                 stored, returned, nextVal, closed>>

PkgReset(p) ==
  /\ pc[p] = "idle" /\ mu = 0 /\ ~panicked
  /\ r' = 0 /\ w' = 0
  /\ isFull' = updateBufferState(0, 0)
  /\ err' = "nil"
  /\ paused' = FALSE
  /\ nItems' = 0
  /\ PkgBroadcast("Reset", updateBufferState(0, 0), PkgLengthOf(0, 0, updateBufferState(0, 0)))
  /\ UNCHANGED <<buf, size, impl, block, overwrite, rTimeout, wTimeout, preReadBlockHook, preWriteBlockHook,
                 blockedReaders,
                 blockedWriters, mu, op, arg, timer, stored, returned, nextVal, closed>>

\* mutant: Resume leaves the buffer paused
PkgSetPausedStuck(p, o, v) ==
  /\ pc[p] = "idle" /\ mu = 0 /\ ~panicked
  /\ paused' = TRUE
  /\ ret' = Result(o, "nil", <<>>, <<>>, 0)
  /\ UNCHANGED <<bufVars, impl, block, overwrite, rTimeout, wTimeout, preReadBlockHook, preWriteBlockHook,
                 blockedReaders, blockedWriters,
                 readCond, writeCond, mu, pc, op, arg, timer, stored, returned, nItems,
                 nextVal, closed, panicked>>

\* Pause and Resume only set the flag (the hooks are nil)
PkgSetPaused(p, o, v) ==
  /\ pc[p] = "idle" /\ mu = 0 /\ ~panicked
  /\ paused' = v
  /\ ret' = Result(o, "nil", <<>>, <<>>, 0)
  /\ UNCHANGED <<bufVars, impl, block, overwrite, rTimeout, wTimeout, preReadBlockHook, preWriteBlockHook,
                 blockedReaders, blockedWriters,
                 readCond, writeCond, mu, pc, op, arg, timer, stored, returned, nItems,
                 nextVal, closed, panicked>>

PkgPause(p) == PkgSetPaused(p, "Pause", TRUE)

PkgResume(p) == PkgSetPaused(p, "Resume", FALSE)

\* ---- pkg/ringbuffer: WriteMany ----

\* WriteMany calls Write once per item, and each Write takes and releases the
\* lock.  arg[p].items are the items not yet written (the first is the one
\* being written), arg[p].n is the count n of WriteMany.

\* mutant: WriteMany does not count the items written
PkgWriteManyDoneNoCount(p, items, n, pcf, stores) ==
  /\ IF stores /\ block /\ Positive32(blockedReaders)
     THEN SignalWriteCond(pcf)
     ELSE pc' = pcf /\ UNCHANGED writeCond
  /\ IF Len(items) = 1
     THEN /\ ret' = [op |-> "WriteMany", err |-> "nil", items |-> <<>>, part2 |-> <<>>,
                     n |-> n, waited |-> FALSE]
          /\ Leave(p)
     ELSE /\ arg' = [arg EXCEPT ![p] = [items |-> Tail(items), n |-> n]]
          /\ UNCHANGED <<op, timer, ret>>

\* a Write of WriteMany has returned nil: n++, then the next item or the
\* return of (n, nil).  stores: the Write stored its item (it does not when the
\* buffer is paused) and so signals writeCond if a reader is counted blocked.
PkgWriteManyDone(p, items, n, pcf, stores) ==
  /\ IF stores /\ block /\ Positive32(blockedReaders)
     THEN SignalWriteCond(pcf)
     ELSE pc' = pcf /\ UNCHANGED writeCond
  /\ IF Len(items) = 1
     THEN /\ ret' = [op |-> "WriteMany", err |-> "nil", items |-> <<>>, part2 |-> <<>>,
                     n |-> n + 1, waited |-> FALSE]
          /\ Leave(p)
     ELSE /\ arg' = [arg EXCEPT ![p] = [items |-> Tail(items), n |-> n + 1]]
          /\ UNCHANGED <<op, timer, ret>>

PkgWriteManyNext(p, items, n) ==
  PkgWriteManyDone(p, items, n,
                   IF Len(items) = 1 THEN Idle(p) ELSE [pc EXCEPT ![p] = "many"],
                   ~paused)

\* the Write of items[1] inside WriteMany, from the loop "for r.isFull" on
PkgWriteManyLoop(p, items, n, bw) ==
  IF isFull
  THEN \* handleBufferFull
       IF ~block
       THEN /\ ret' = ResultOf(p, "WriteMany", "ErrIsFull", <<>>, <<>>, n)
            /\ pc' = Idle(p)
            /\ Leave(p)
            /\ blockedWriters' = bw /\ mu' = 0
            /\ UNCHANGED <<bufVars, readCond, writeCond, stored, returned, nItems>>
       ELSE IF overwrite
       THEN /\ r' = Advance(r, 1)
            /\ isFull' = (IF Advance(r, 1) = w THEN TRUE ELSE isFull)
            /\ pc' = [pc EXCEPT ![p] = "loop"]
            /\ op' = [op EXCEPT ![p] = "WriteMany"]
            /\ arg' = [arg EXCEPT ![p] = [items |-> items, n |-> n]]
            /\ mu' = p
            /\ blockedWriters' = bw
            /\ UNCHANGED <<buf, size, w, err, readCond, writeCond, timer, ret,
                           stored, returned, nItems>>
       ELSE /\ pc' = [pc EXCEPT ![p] = "preW"]
            /\ op' = [op EXCEPT ![p] = "WriteMany"]
            /\ arg' = [arg EXCEPT ![p] = [items |-> items, n |-> n]]
            /\ mu' = 0
            /\ blockedWriters' = bw
            /\ UNCHANGED <<bufVars, readCond, writeCond, timer, ret, stored, returned, nItems>>
  ELSE /\ buf' = StoreAt(buf, w, items[1])
       /\ w' = Advance(w, 1)
       /\ isFull' = (Advance(w, 1) = r)
       /\ stored' = Append(stored, items[1])
       /\ nItems' = nItems + 1
       /\ blockedWriters' = bw
       /\ mu' = 0
       /\ PkgWriteManyNext(p, items, n)
       /\ UNCHANGED <<size, r, err, readCond, returned>>

PkgWriteMany(p) ==
  /\ pc[p] = "idle" /\ ~panicked
  /\ \E k \in 0..(size + 1) :
       /\ nextVal + k - 1 <= MaxVal
       /\ nextVal' = nextVal + k
       /\ IF k = 0
          THEN /\ ret' = Result("WriteMany", "nil", <<>>, <<>>, 0)
               /\ UNCHANGED <<pc, op, arg>>
          ELSE IF k > size
          THEN /\ ret' = Result("WriteMany", "ErrTooMuchDataToWrite", <<>>, <<>>, 0)
               /\ UNCHANGED <<pc, op, arg>>
          ELSE /\ pc' = [pc EXCEPT ![p] = "many"]
               /\ op' = [op EXCEPT ![p] = "WriteMany"]
               /\ arg' = [arg EXCEPT ![p] = [items |-> Fresh(k), n |-> 0]]
               /\ UNCHANGED ret
  /\ UNCHANGED <<bufVars, cfgVars, blockedReaders, blockedWriters, readCond, writeCond, mu,
                 timer, stored, returned, nItems, closed, panicked>>

\* the next r.Write(item) of the loop of WriteMany
PkgWriteManyStep(p) ==
  /\ pc[p] = "many" /\ op[p] = "WriteMany" /\ mu = 0 /\ ~panicked
  /\ IF paused
     THEN /\ PkgWriteManyNext(p, arg[p].items, arg[p].n)
          /\ UNCHANGED <<bufVars, blockedWriters, mu, readCond, stored, returned, nItems>>
     ELSE PkgWriteManyLoop(p, arg[p].items, arg[p].n, blockedWriters)
  /\ UNCHANGED <<cfgVars, blockedReaders, nextVal, closed, panicked>>

PkgWriteManySpin(p) ==
  /\ pc[p] = "loop" /\ op[p] = "WriteMany" /\ mu = p /\ ~panicked
  /\ PkgWriteManyLoop(p, arg[p].items, arg[p].n, blockedWriters)
  /\ UNCHANGED <<cfgVars, blockedReaders, nextVal, closed, panicked>>

PkgWriteManyResume(p) ==
  /\ pc[p] = "woken" /\ op[p] = "WriteMany" /\ mu = 0 /\ ~panicked
  /\ PkgWriteManyLoop(p, arg[p].items, arg[p].n, Dec32(blockedWriters))
  /\ UNCHANGED <<cfgVars, blockedReaders, nextVal, closed, panicked>>

\* ---- pkg/ringbuffer: GetAllView, GetNView ----

\* a view operation returns part1, part2 for the request n: the views of
\* pkg/ringbuffer move no position and signal nobody
PkgViewReturn(o, e, part1, part2, n) ==
  /\ ret' = Result(o, e, part1, part2, n)
  /\ UNCHANGED <<bufVars, blockedReaders, blockedWriters, readCond, writeCond, mu,
                 pc, op, arg, timer, stored, returned, nItems, panicked>>

\* a slice expression with a negative length: runtime panic
PkgViewPanic(o, n) ==
  /\ ret' = Result(o, "panic", <<>>, <<>>, n)
  /\ panicked' = TRUE
  /\ UNCHANGED <<bufVars, blockedReaders, blockedWriters, readCond, writeCond, mu,
                 pc, op, arg, timer, stored, returned, nItems>>

PkgGetAllView(p) ==
  /\ pc[p] = "idle" /\ mu = 0 /\ ~panicked
  /\ IF ~isFull /\ r = w
     THEN PkgViewReturn("GetAllView", "ErrIsEmpty", <<>>, <<>>, 0)
     ELSE IF w > r
     THEN PkgViewReturn("GetAllView", "nil", Slice(buf, r, w), <<>>, 0)
     ELSE PkgViewReturn("GetAllView", "nil", Slice(buf, r, size), Slice(buf, 0, w), 0)
  /\ UNCHANGED <<cfgVars, nextVal, closed>>

\* GetNView(n) once the lock is held; m is n after "if n > length"
PkgGetNViewOf(p, n) ==
  /\ pc[p] = "idle" /\ mu = 0 /\ ~panicked
  /\ IF ~isFull /\ r = w
     THEN PkgViewReturn("GetNView", "ErrIsEmpty", <<>>, <<>>, n)
     ELSE LET m == IF n > PkgLength THEN PkgLength ELSE n
              firstPart == size - r
          IN IF m < 0
             THEN PkgViewPanic("GetNView", n)
             ELSE IF w > r
             THEN IF m <= w - r
                  THEN PkgViewReturn("GetNView", "nil", Slice(buf, r, r + m), <<>>, n)
                  ELSE PkgViewReturn("GetNView", "nil", Slice(buf, r, w), <<>>, n)
             ELSE IF m <= firstPart
             THEN PkgViewReturn("GetNView", "nil", Slice(buf, r, r + m), <<>>, n)
             ELSE PkgViewReturn("GetNView", "nil", Slice(buf, r, size),
                                Slice(buf, 0, m - firstPart), n)
  /\ UNCHANGED <<cfgVars, nextVal, closed>>

PkgGetNView(p) == \E n \in (0 - 1)..(size + 1) : PkgGetNViewOf(p, n)

\* ---- pkg/ringbuffer: TryWrite, TryRead ----

\* TryWrite and TryRead return a bool: ret.err holds "true" or "false"

\* mutant: TryWrite overwrites without moving the read position
TryWriteReadPosStuck(rp) == rp

\* TryWrite on a full buffer with overwrite: r.r = (r.r + 1) % r.size
TryWriteReadPos(rp) == Advance(rp, 1)

\* TryWrite signals readCond, the condition the writers park on, when a
\* reader is counted blocked
PkgTryWrite(p) ==
  /\ pc[p] = "idle" /\ mu = 0 /\ ~panicked
  /\ nextVal <= MaxVal
  /\ nextVal' = nextVal + 1
  /\ IF paused \/ (isFull /\ ~overwrite)
     THEN /\ ret' = Result("TryWrite", "false", <<>>, <<>>, 0)
          /\ UNCHANGED <<bufVars, readCond, pc, stored, nItems>>
     ELSE LET rp == IF isFull THEN TryWriteReadPos(r) ELSE r
          IN /\ r' = rp
             /\ buf' = StoreAt(buf, w, nextVal)
             /\ w' = Advance(w, 1)
             /\ isFull' = (Advance(w, 1) = rp)
             /\ stored' = Append(stored, nextVal)
             /\ nItems' = (IF isFull THEN nItems ELSE nItems + 1)
             /\ ret' = Result("TryWrite", "true", <<>>, <<>>, 0)
             /\ IF block /\ Positive32(blockedReaders)
                THEN SignalReadCond(pc)
                ELSE UNCHANGED <<pc, readCond>>
             /\ UNCHANGED <<size, err>>
  /\ UNCHANGED <<cfgVars, blockedReaders, blockedWriters, writeCond, mu, op, arg, timer,
                 returned, closed, panicked>>

\* mutant: TryRead returns the newest item
TryReadItemNewest == buf[Advance(w, size - 1)]

\* item := r.buf[r.r] of TryRead
TryReadItem == buf[r]

\* TryRead signals writeCond, the condition the readers park on, when a
\* writer is counted blocked
PkgTryRead(p) ==
  /\ pc[p] = "idle" /\ mu = 0 /\ ~panicked
  /\ IF paused \/ (~isFull /\ r = w)
     THEN /\ ret' = Result("TryRead", "false", <<Zero>>, <<>>, 0)
          /\ UNCHANGED <<bufVars, writeCond, pc, returned, nItems>>
     ELSE /\ r' = Advance(r, 1)
          /\ isFull' = FALSE
          /\ returned' = Append(returned, TryReadItem)
          /\ nItems' = nItems - 1
          /\ ret' = Result("TryRead", "true", <<TryReadItem>>, <<>>, 0)
          /\ IF block /\ Positive32(blockedWriters)
             THEN SignalWriteCond(pc)
             ELSE UNCHANGED <<pc, writeCond>>
          /\ UNCHANGED <<buf, size, w, err>>
  /\ UNCHANGED <<cfgVars, blockedReaders, blockedWriters, readCond, mu, op, arg, timer,
                 stored, nextVal, closed, panicked>>

\* ---- pkg/ringbuffer: Write and GetOne with a positive timeout ----

\* waitForReadCondition / waitForWriteCondition with a timeout start a helper
\* goroutine that calls Wait on the condition variable and then closes the
\* channel done, while the caller selects on done and time.After.  A goroutine
\* slot q \in Procs runs either a caller or such a helper: pc[q] = "hspawn"
\* (started, Wait not yet called), "wait" (parked in Wait), "woken"
\* (signalled, not yet running).  arg[q].n of a helper is its caller, arg[p].n
\* of a caller in the select is its helper.

\* the value of mu when the goroutine that locked r.mu has exited
Orphaned == NumProcs + 1

IsHelper(q) == op[q] \in {"readCond.Wait", "writeCond.Wait"}

\* the caller p, holding the lock, starts the helper h on condition c and enters the select
StartWait(p, h, c) ==
  /\ h # p /\ pc[h] = "idle"
  /\ pc' = [pc EXCEPT ![p] = "select", ![h] = "hspawn"]
  /\ op' = [op EXCEPT ![h] = c]
  /\ arg' = [arg EXCEPT ![p] = [items |-> arg[p].items, n |-> h],
                        ![h] = [items |-> <<>>, n |-> p]]
  /\ timer' = [timer EXCEPT ![p] = "armed"]
  /\ mu' = p

\* handleBufferFull from r.mu.Lock() after checkPreWriteBlock to the select of
\* waitForReadCondition
PkgWriteRelockTimed(p) ==
  /\ pc[p] = "preW" /\ op[p] = "Write" /\ mu = 0 /\ ~panicked
  /\ rTimeout > 0
  /\ blockedWriters' = Inc32(blockedWriters)
  /\ \E h \in Procs : StartWait(p, h, "readCond.Wait")
  /\ UNCHANGED <<bufVars, cfgVars, blockedReaders, readCond, writeCond, ret,
                 stored, returned, nItems, nextVal, closed, panicked>>

\* handleBufferEmpty from r.mu.Lock() after checkPreReadBlock to the select of
\* waitForWriteCondition
PkgGetOneRelockTimed(p) ==
  /\ pc[p] = "preR" /\ op[p] = "GetOne" /\ mu = 0 /\ ~panicked
  /\ wTimeout > 0
  /\ \E h \in Procs : StartWait(p, h, "writeCond.Wait")
  /\ UNCHANGED <<bufVars, cfgVars, blockedReaders, blockedWriters, readCond, writeCond, ret,
                 stored, returned, nItems, nextVal, closed, panicked>>

\* c.L.Unlock() inside sync.Cond.Wait: the mutex is released, whoever locked it
WaitUnlock(m) == 0

\* the helper h calls Wait: it joins the wait list, unlocks r.mu and parks;
\* unlocking a mutex that is not locked is a fatal error
HelperWait(h) ==
  /\ pc[h] = "hspawn" /\ IsHelper(h) /\ ~panicked
  /\ IF mu = 0
     THEN /\ panicked' = TRUE
          /\ UNCHANGED <<mu, pc, readCond, writeCond>>
     ELSE /\ mu' = WaitUnlock(mu)
          /\ pc' = [pc EXCEPT ![h] = "wait"]
          /\ IF op[h] = "readCond.Wait"
             THEN readCond' = readCond \cup {h} /\ UNCHANGED writeCond
             ELSE writeCond' = writeCond \cup {h} /\ UNCHANGED readCond
          /\ UNCHANGED panicked
  /\ UNCHANGED <<bufVars, cfgVars, blockedReaders, blockedWriters, op, arg, timer, ret,
                 stored, returned, nItems, nextVal, closed>>

\* the helper h returns from Wait holding r.mu, closes done and exits.  Its
\* caller, if it is still in the select, goes on as the holder of the lock;
\* otherwise nobody is left to unlock it.
HelperResume(h) ==
  /\ pc[h] = "woken" /\ IsHelper(h) /\ mu = 0 /\ ~panicked
  /\ LET p == arg[h].n
     IN IF pc[p] = "select" /\ arg[p].n = h
        THEN /\ mu' = p
             /\ pc' = [pc EXCEPT ![h] = "idle", ![p] = "woken"]
        ELSE /\ mu' = Orphaned
             /\ pc' = [pc EXCEPT ![h] = "idle"]
  /\ Leave(h)
  /\ UNCHANGED <<bufVars, cfgVars, blockedReaders, blockedWriters, readCond, writeCond, ret,
                 stored, returned, nItems, nextVal, closed, panicked>>

\* the duration given to time.After by the caller p has passed
PkgDeadlinePass(p) ==
  /\ pc[p] \in {"select", "woken"} /\ ~IsHelper(p) /\ timer[p] = "armed" /\ ~panicked
  /\ timer' = [timer EXCEPT ![p] = "due"]
  /\ UNCHANGED <<bufVars, cfgVars, blockedReaders, blockedWriters, readCond, writeCond,
                 mu, pc, op, arg, ret, stored, returned, nItems, nextVal, closed, panicked>>

\* the select of p takes <-time.After: the wait function returns
\* context.DeadlineExceeded, the operation o returns it and its deferred
\* r.mu.Unlock() runs
PkgTimeoutReturn(p, o) ==
  /\ IF mu = 0
     THEN /\ panicked' = TRUE
          /\ ret' = ResultOf(p, o, "panic", <<>>, <<>>, 0)
          /\ UNCHANGED mu
     ELSE /\ mu' = 0
          /\ ret' = ResultOf(p, o, "DeadlineExceeded", <<>>, <<>>, 0)
          /\ UNCHANGED panicked
  /\ pc' = Idle(p)
  /\ Leave(p)
  /\ UNCHANGED <<bufVars, cfgVars, readCond, writeCond, stored, returned, nItems,
                 nextVal, closed>>

\* Write: the timeout case of waitForReadCondition, which decrements blockedReaders
PkgWriteTimeout(p) ==
  /\ pc[p] \in {"select", "woken"} /\ op[p] = "Write" /\ timer[p] = "due" /\ ~panicked
  /\ blockedReaders' = Dec32(blockedReaders)
  /\ UNCHANGED blockedWriters
  /\ PkgTimeoutReturn(p, "Write")

\* GetOne: the timeout case of waitForWriteCondition, which decrements blockedWriters
PkgGetOneTimeout(p) ==
  /\ pc[p] \in {"select", "woken"} /\ op[p] = "GetOne" /\ timer[p] = "due" /\ ~panicked
  /\ blockedWriters' = Dec32(blockedWriters)
  /\ UNCHANGED blockedReaders
  /\ PkgTimeoutReturn(p, "GetOne")

\* Write: the select of p takes <-done, the lock being held for p by its helper
PkgWriteDone(p) ==
  /\ pc[p] = "woken" /\ op[p] = "Write" /\ mu = p /\ ~panicked
  /\ PkgWriteLoop(p, arg[p].items[1], Dec32(blockedWriters))
  /\ UNCHANGED <<cfgVars, blockedReaders, nextVal, closed, panicked>>

\* GetOne: the select of p takes <-done
PkgGetOneDone(p) ==
  /\ pc[p] = "woken" /\ op[p] = "GetOne" /\ mu = p /\ ~panicked
  /\ PkgGetOneLoop(p, Dec32(blockedReaders))
  /\ UNCHANGED <<cfgVars, blockedWriters, nextVal, closed, panicked>>

\* ---- specification: root package, blocking mode, Write and GetOne only ----
InitRW ==
  /\ \E sz \in 1..MaxSize : New(sz)
  /\ impl = "root"
  /\ block = TRUE /\ overwrite = FALSE
  /\ rTimeout = 0 /\ wTimeout = 0
  /\ NoHooks

NextRW ==
  \/ \E p \in Procs : Write(p)
  \/ \E p \in Procs : WriteResume(p)
  \/ \E p \in Procs : GetOne(p)
  \/ \E p \in Procs : GetOneResume(p)

SpecRW == InitRW /\ [][NextRW]_vars

\* ---- specification: root package, every operation, no timeout configured ----
InitRoot ==
  /\ \E sz \in 1..MaxSize : New(sz)
  /\ impl = "root"
  /\ block \in BOOLEAN /\ overwrite = FALSE
  /\ rTimeout = 0 /\ wTimeout = 0
  /\ NoHooks

NextRoot ==
  \/ \E p \in Procs : Write(p)
  \/ \E p \in Procs : WriteResume(p)
  \/ \E p \in Procs : WriteMany(p)
  \/ \E p \in Procs : WriteManyResume(p)
  \/ \E p \in Procs : GetOne(p)
  \/ \E p \in Procs : GetOneResume(p)
  \/ \E p \in Procs : GetN(p)
  \/ \E p \in Procs : GetNResume(p)
  \/ \E p \in Procs : GetNView(p)
  \/ \E p \in Procs : GetNViewResume(p)
  \/ \E p \in Procs : GetAllView(p)
  \/ \E p \in Procs : PeekOne(p)
  \/ \E p \in Procs : PeekN(p)
  \/ \E p \in Procs : PeekNView(p)
  \/ \E p \in Procs : Close(p)

SpecRoot == InitRoot /\ [][NextRoot]_vars

\* ---- specification: root package, the peek operations ----
NextPeek ==
  \/ \E p \in Procs : Write(p)
  \/ \E p \in Procs : WriteResume(p)
  \/ \E p \in Procs : GetOne(p)
  \/ \E p \in Procs : GetOneResume(p)
  \/ \E p \in Procs : PeekOne(p)
  \/ \E p \in Procs : PeekN(p)
  \/ \E p \in Procs : PeekNView(p)
  \/ \E p \in Procs : Close(p)

SpecPeek == InitRoot /\ [][NextPeek]_vars

\* ---- specification: root package, calls through a nil handle next to a live buffer ----
NextNil ==
  \/ \E p \in Procs : Write(p)
  \/ \E p \in Procs : WriteResume(p)
  \/ \E p \in Procs : GetOne(p)
  \/ \E p \in Procs : GetOneResume(p)
  \/ \E p \in Procs : NilCall(p)

SpecNil == InitRoot /\ [][NextNil]_vars

\* ---- specification: pkg/ringbuffer, blocking mode, Write and GetOne with hooks ----
InitPkgHooks ==
  /\ \E sz \in 1..MaxSize : New(sz)
  /\ impl = "pkg"
  /\ block = TRUE /\ overwrite = FALSE
  /\ rTimeout = 0 /\ wTimeout = 0
  /\ preReadBlockHook \in {"nil", "true", "false"}
  /\ preWriteBlockHook \in {"nil", "true", "false"}
  /\ ~NoHooks

NextPkgHooks ==
  \/ \E p \in Procs : PkgWrite(p)
  \/ \E p \in Procs : PkgWriteRelock(p)
  \/ \E p \in Procs : PkgWriteHooked(p)
  \/ \E p \in Procs : PkgWriteResume(p)
  \/ \E p \in Procs : PkgGetOne(p)
  \/ \E p \in Procs : PkgGetOneRelock(p)
  \/ \E p \in Procs : PkgGetOneHooked(p)
  \/ \E p \in Procs : PkgGetOneResume(p)

SpecPkgHooks == InitPkgHooks /\ [][NextPkgHooks]_vars

\* ---- specification: pkg/ringbuffer, blocking mode, with Read, TryWrite, TryRead ----
InitPkgBlock ==
  /\ \E sz \in 1..MaxSize : New(sz)
  /\ impl = "pkg"
  /\ block = TRUE /\ overwrite = FALSE
  /\ rTimeout = 0 /\ wTimeout = 0
  /\ NoHooks

NextPkgRead ==
  \/ \E p \in Procs : PkgWrite(p)
  \/ \E p \in Procs : PkgWriteRelock(p)
  \/ \E p \in Procs : PkgWriteResume(p)
  \/ \E p \in Procs : PkgGetOne(p)
  \/ \E p \in Procs : PkgGetOneRelock(p)
  \/ \E p \in Procs : PkgGetOneResume(p)
  \/ \E p \in Procs : PkgRead(p)
  \/ \E p \in Procs : PkgReadResume(p)
  \/ \E p \in Procs : PkgTryWrite(p)
  \/ \E p \in Procs : PkgTryRead(p)

SpecPkgRead == InitPkgBlock /\ [][NextPkgRead]_vars

\* ---- specification: root package, ClearBuffer and IsEmpty next to Write and GetOne ----
NextClear ==
  \/ \E p \in Procs : Write(p)
  \/ \E p \in Procs : WriteResume(p)
  \/ \E p \in Procs : GetOne(p)
  \/ \E p \in Procs : GetOneResume(p)
  \/ \E p \in Procs : IsEmptyLock(p)
  \/ \E p \in Procs : IsEmptyReturn(p)
  \/ \E p \in Procs : ClearBufferCall(p)
  \/ \E p \in Procs : ClearBufferStore(p)

SpecClear == InitRoot /\ [][NextClear]_vars

\* ---- specification: pkg/ringbuffer on which WithBlocking(true) was never called ----
InitPkgNoBlock ==
  /\ \E sz \in 1..MaxSize : New(sz)
  /\ impl = "pkg"
  /\ block = FALSE /\ overwrite = FALSE
  /\ rTimeout = 0 /\ wTimeout = 0
  /\ NoHooks

NextPkgNoBlock ==
  \/ \E p \in Procs : PkgWrite(p)
  \/ \E p \in Procs : PkgGetOne(p)
  \/ \E p \in Procs : PkgRead(p)
  \/ \E p \in Procs : PkgFlush(p)
  \/ \E p \in Procs : PkgReset(p)
  \/ \E p \in Procs : PkgClose(p)

SpecPkgNoBlock == InitPkgNoBlock /\ [][NextPkgNoBlock]_vars

\* ---- specification: both packages, blocking never enabled, no timeout ----
InitNoBlock ==
  /\ \E sz \in 1..MaxSize : New(sz)
  /\ impl \in {"root", "pkg"}
  /\ block = FALSE /\ overwrite = FALSE
  /\ rTimeout = 0 /\ wTimeout = 0
  /\ NoHooks

NextNoBlock ==
  \/ \E p \in Procs : impl = "root" /\ Write(p)
  \/ \E p \in Procs : impl = "root" /\ WriteMany(p)
  \/ \E p \in Procs : impl = "root" /\ GetOne(p)
  \/ \E p \in Procs : impl = "root" /\ GetN(p)
  \/ \E p \in Procs : impl = "root" /\ GetNView(p)
  \/ \E p \in Procs : impl = "pkg" /\ PkgWrite(p)
  \/ \E p \in Procs : impl = "pkg" /\ PkgWriteMany(p)
  \/ \E p \in Procs : impl = "pkg" /\ PkgWriteManyStep(p)
  \/ \E p \in Procs : impl = "pkg" /\ PkgGetOne(p)
  \/ \E p \in Procs : impl = "pkg" /\ PkgGetN(p)
  \/ \E p \in Procs : impl = "pkg" /\ PkgGetNLength(p)
  \/ \E p \in Procs : impl = "pkg" /\ PkgGetNStep(p)
  \/ \E p \in Procs : impl = "pkg" /\ PkgGetNView(p)

SpecNoBlock == InitNoBlock /\ [][NextNoBlock]_vars

\* ---- specification: root package, Write and GetOne with a pre-block hook ----
\* The hooks that call back into the buffer are registered alone, on a buffer
\* in non-blocking mode, where the call they make returns without parking.
InitHooks ==
  /\ \E sz \in 1..MaxSize : New(sz)
  /\ impl = "root"
  /\ overwrite = FALSE
  /\ rTimeout = 0 /\ wTimeout = 0
  /\ \/ /\ preReadBlockHook \in {"nil", "false", "retry"}
        /\ preWriteBlockHook \in {"nil", "true", "false"}
        /\ ~NoHooks
        /\ block \in BOOLEAN
     \/ /\ preReadBlockHook = "nil" /\ preWriteBlockHook = "GetOne"
        /\ block = FALSE
     \/ /\ preReadBlockHook = "Write" /\ preWriteBlockHook = "nil"
        /\ block = FALSE

NextHooks ==
  \/ \E p \in Procs : Write(p)
  \/ \E p \in Procs : WriteResume(p)
  \/ \E p \in Procs : PreWriteBlockHook(p)
  \/ \E p \in Procs : WriteAfterHook(p)
  \/ \E p \in Procs : GetOne(p)
  \/ \E p \in Procs : GetOneResume(p)
  \/ \E p \in Procs : PreReadBlockHook(p)
  \/ \E p \in Procs : GetOneAfterHook(p)

SpecHooks == InitHooks /\ [][NextHooks]_vars

\* ---- specifications with the scheduler's fairness ----
\* a goroutine woken from Wait is runnable and gets the lock eventually
FairRW ==
  /\ SpecRW
  /\ \A p \in Procs : WF_vars(WriteResume(p)) /\ WF_vars(GetOneResume(p))

\* ---- specification: root package, blocking mode, Write and GetN ----
NextGetN ==
  \/ \E p \in Procs : Write(p)
  \/ \E p \in Procs : WriteResume(p)
  \/ \E p \in Procs : GetN(p)
  \/ \E p \in Procs : GetNResume(p)

SpecGetN == InitRW /\ [][NextGetN]_vars

FairGetN ==
  /\ SpecGetN
  /\ \A p \in Procs : WF_vars(WriteResume(p)) /\ WF_vars(GetNResume(p))

\* ---- specification: root package, blocking mode with positive timeouts ----
InitTimed ==
  /\ \E sz \in 1..MaxSize : New(sz)
  /\ impl = "root"
  /\ block = TRUE /\ overwrite = FALSE
  /\ rTimeout = 1 /\ wTimeout = 1
  /\ NoHooks

NextTimed ==
  \/ \E p \in Procs : Write(p)
  \/ \E p \in Procs : WriteResume(p)
  \/ \E p \in Procs : GetOne(p)
  \/ \E p \in Procs : GetOneResume(p)
  \/ \E p \in Procs : DeadlinePass(p)
  \/ \E p \in Procs : TimerFire(p)

SpecTimed == InitTimed /\ [][NextTimed]_vars

\* time passes and a timer that is due runs its function
FairTimed ==
  /\ SpecTimed
  /\ \A p \in Procs : /\ WF_vars(WriteResume(p)) /\ WF_vars(GetOneResume(p))
                      /\ WF_vars(DeadlinePass(p)) /\ WF_vars(TimerFire(p))

\* ---- specification: pkg/ringbuffer, no timeout, no hook ----
InitPkg ==
  /\ \E sz \in 1..MaxSize : New(sz)
  /\ impl = "pkg"
  /\ block \in BOOLEAN /\ overwrite \in BOOLEAN
  /\ rTimeout = 0 /\ wTimeout = 0
  /\ NoHooks

NextPkg ==
  \/ \E p \in Procs : PkgWrite(p)
  \/ \E p \in Procs : PkgWriteSpin(p)
  \/ \E p \in Procs : PkgWriteRelock(p)
  \/ \E p \in Procs : PkgWriteResume(p)
  \/ \E p \in Procs : PkgGetOne(p)
  \/ \E p \in Procs : PkgGetOneRelock(p)
  \/ \E p \in Procs : PkgGetOneResume(p)
  \/ \E p \in Procs : PkgClose(p)

SpecPkg == InitPkg /\ [][NextPkg]_vars

\* ---- specification: pkg/ringbuffer with Flush, Reset, Pause and Resume ----
\* Flush and Reset are taken while at most MaxReturned items have been handed out
NextPkgOps ==
  \/ \E p \in Procs : PkgWrite(p)
  \/ \E p \in Procs : PkgWriteSpin(p)
  \/ \E p \in Procs : PkgWriteRelock(p)
  \/ \E p \in Procs : PkgWriteResume(p)
  \/ \E p \in Procs : PkgGetOne(p)
  \/ \E p \in Procs : PkgGetOneRelock(p)
  \/ \E p \in Procs : PkgGetOneResume(p)
  \/ \E p \in Procs : Len(returned) <= MaxReturned /\ PkgFlush(p)
  \/ \E p \in Procs : Len(returned) <= MaxReturned /\ PkgReset(p)
  \/ \E p \in Procs : PkgPause(p)
  \/ \E p \in Procs : PkgResume(p)

SpecPkgOps == InitPkg /\ [][NextPkgOps]_vars

\* ---- specification: pkg/ringbuffer with WriteMany ----
NextPkgMany ==
  \/ \E p \in Procs : PkgWrite(p)
  \/ \E p \in Procs : PkgWriteSpin(p)
  \/ \E p \in Procs : PkgWriteRelock(p)
  \/ \E p \in Procs : PkgWriteResume(p)
  \/ \E p \in Procs : PkgWriteMany(p)
  \/ \E p \in Procs : PkgWriteManyStep(p)
  \/ \E p \in Procs : PkgWriteManySpin(p)
  \/ \E p \in Procs : PkgWriteManyResume(p)
  \/ \E p \in Procs : PkgGetOne(p)
  \/ \E p \in Procs : PkgGetOneRelock(p)
  \/ \E p \in Procs : PkgGetOneResume(p)
  \/ \E p \in Procs : PkgPause(p)
  \/ \E p \in Procs : PkgResume(p)

SpecPkgMany == InitPkg /\ [][NextPkgMany]_vars

\* ---- specification: pkg/ringbuffer with the view operations ----
NextPkgView ==
  \/ \E p \in Procs : PkgWrite(p)
  \/ \E p \in Procs : PkgWriteSpin(p)
  \/ \E p \in Procs : PkgWriteRelock(p)
  \/ \E p \in Procs : PkgWriteResume(p)
  \/ \E p \in Procs : PkgGetOne(p)
  \/ \E p \in Procs : PkgGetOneRelock(p)
  \/ \E p \in Procs : PkgGetOneResume(p)
  \/ \E p \in Procs : PkgGetAllView(p)
  \/ \E p \in Procs : PkgGetNView(p)

SpecPkgView == InitPkg /\ [][NextPkgView]_vars

\* ---- specification: pkg/ringbuffer with TryWrite and TryRead ----
NextPkgTry ==
  \/ \E p \in Procs : PkgWrite(p)
  \/ \E p \in Procs : PkgWriteSpin(p)
  \/ \E p \in Procs : PkgWriteRelock(p)
  \/ \E p \in Procs : PkgWriteResume(p)
  \/ \E p \in Procs : PkgGetOne(p)
  \/ \E p \in Procs : PkgGetOneRelock(p)
  \/ \E p \in Procs : PkgGetOneResume(p)
  \/ \E p \in Procs : PkgTryWrite(p)
  \/ \E p \in Procs : PkgTryRead(p)
  \/ \E p \in Procs : PkgPause(p)
  \/ \E p \in Procs : PkgResume(p)

SpecPkgTry == InitPkg /\ [][NextPkgTry]_vars

\* ---- specification: pkg/ringbuffer, blocking mode with positive timeouts ----
InitPkgTimed ==
  /\ \E sz \in 1..MaxSize : New(sz)
  /\ impl = "pkg"
  /\ block = TRUE /\ overwrite = FALSE
  /\ rTimeout = 1 /\ wTimeout = 1
  /\ NoHooks

NextPkgTimed ==
  \/ \E p \in Procs : PkgWrite(p)
  \/ \E p \in Procs : PkgWriteRelockTimed(p)
  \/ \E p \in Procs : PkgWriteDone(p)
  \/ \E p \in Procs : PkgWriteTimeout(p)
  \/ \E p \in Procs : PkgGetOne(p)
  \/ \E p \in Procs : PkgGetOneRelockTimed(p)
  \/ \E p \in Procs : PkgGetOneDone(p)
  \/ \E p \in Procs : PkgGetOneTimeout(p)
  \/ \E p \in Procs : HelperWait(p)
  \/ \E p \in Procs : HelperResume(p)
  \/ \E p \in Procs : PkgDeadlinePass(p)

SpecPkgTimed == InitPkgTimed /\ [][NextPkgTimed]_vars

\* ---- specification: the view operations of both packages ----
\* The buffer is built by New (root package, which has no overwrite mode) or by
\* NewRingBuffer (pkg/ringbuffer); each package's operations act on its own buffers.
IsRoot == impl = "root"

InitViews ==
  /\ \E sz \in 1..MaxSize : New(sz)
  /\ \/ impl = "root" /\ overwrite = FALSE
     \/ impl = "pkg" /\ overwrite \in BOOLEAN
  /\ block \in BOOLEAN
  /\ rTimeout = 0 /\ wTimeout = 0
  /\ NoHooks

NextViews ==
  \/ \E p \in Procs : IsRoot /\ Write(p)
  \/ \E p \in Procs : IsRoot /\ WriteResume(p)
  \/ \E p \in Procs : IsRoot /\ GetOne(p)
  \/ \E p \in Procs : IsRoot /\ GetOneResume(p)
  \/ \E p \in Procs : IsRoot /\ GetNView(p)
  \/ \E p \in Procs : IsRoot /\ GetNViewResume(p)
  \/ \E p \in Procs : IsRoot /\ GetAllView(p)
  \/ \E p \in Procs : IsRoot /\ PeekNView(p)
  \/ \E p \in Procs : ~IsRoot /\ PkgWrite(p)
  \/ \E p \in Procs : ~IsRoot /\ PkgWriteSpin(p)
  \/ \E p \in Procs : ~IsRoot /\ PkgWriteRelock(p)
  \/ \E p \in Procs : ~IsRoot /\ PkgWriteResume(p)
  \/ \E p \in Procs : ~IsRoot /\ PkgGetOne(p)
  \/ \E p \in Procs : ~IsRoot /\ PkgGetOneRelock(p)
  \/ \E p \in Procs : ~IsRoot /\ PkgGetOneResume(p)
  \/ \E p \in Procs : ~IsRoot /\ PkgGetAllView(p)
  \/ \E p \in Procs : ~IsRoot /\ PkgGetNView(p)

SpecViews == InitViews /\ [][NextViews]_vars

\* ======================= claims =======================

Range(q) == {q[i] : i \in 1..Len(q)}
NoDuplicates(q) == \A i, j \in 1..Len(q) : q[i] = q[j] => i = j

\* C1: root package, blocking mode, Write and GetOne from several goroutines:
\* no item is returned twice, every item returned was stored by a Write that
\* returned nil, and the items stored are exactly the items returned plus the
\* items still held (as multisets).
C1_NoLossNoDuplication ==
  /\ NoDuplicates(returned)
  /\ Range(returned) \subseteq Range(stored)
  /\ SeqToBag(stored) = SeqToBag(returned) (+) SeqToBag(Contents)

\* three items went through the buffer, two are out and one is held, and the
\* call that returned last had been parked
C1_Witness ==
  /\ Len(stored) = 3 /\ Len(returned) = 2 /\ Len(Contents) = 1
  /\ ret.waited

\* the goroutines are all idle or parked: nothing runs unless a new call is made
Quiescent == \A q \in Procs : pc[q] \in {"idle", "wait"}

\* C2: pkg/ringbuffer, blocking mode, no timeout, no hook: no caller stays
\* parked while the condition it waits for holds: when nothing else runs, a
\* parked GetOne means an empty buffer and a parked Write means a full one.
C2_NoLostWakeup ==
  (Quiescent /\ ~closed /\ ~paused) =>
    \A p \in Procs :
      pc[p] = "wait" =>
        /\ op[p] = "GetOne" => IsEmptyBuf
        /\ op[p] = "Write" => isFull

\* C3: root package, blocking mode without timeout: a parked Write does not
\* stay parked while a slot is free (it returns, or the slot was taken by
\* another writer), a Write that resumes and returns has returned nil, and its
\* item is queued behind every item already held.
C3_BlockedWriteCompletes ==
  /\ \A p \in Procs :
       (pc[p] # "idle" /\ op[p] = "Write" /\ ~isFull) ~> (pc[p] = "idle" \/ isFull)
  /\ [][\A p \in Procs :
          (WriteResume(p) /\ pc'[p] = "idle") =>
             /\ ret'.err = "nil"
             /\ Contents' = Append(Contents, arg[p].items[1])]_vars

\* capacity 2: Write 1, Write 2, the parked Write of 3 has returned nil after a
\* GetOne took 1; 2 and 3 are held in this order
C3_Witness ==
  /\ size = 2
  /\ ret.op = "Write" /\ ret.err = "nil" /\ ret.waited
  /\ returned = <<1>>
  /\ Contents = <<2, 3>>

\* C4: root package, no Close: the items handed out so far, followed by the
\* items held from the read position to the write position, are the items
\* stored, in the order they were stored (FIFO), whatever the positions are.
C4_FIFO == ~closed => returned \o Contents = stored

\* three items went through a buffer of capacity 2, so the held run has
\* wrapped past the end of the storage, and GetOne returned them in order
C4_Witness ==
  /\ ~closed /\ size = 2
  /\ ret.op = "GetOne" /\ ret.err = "nil"
  /\ stored = <<1, 2, 3>> /\ returned = <<1, 2, 3>>

\* C5: pkg/ringbuffer: with overwrite enabled a Write to a full buffer returns
\* nil without parking or spinning, and leaves the buffer full, holding the
\* former items but the oldest, then the new item.
C5_OverwriteWrite ==
  [][\A p \in Procs :
       (PkgWrite(p) /\ overwrite /\ isFull /\ ~paused) =>
          /\ pc'[p] = "idle"
          /\ ret'.err = "nil"
          /\ isFull'
          /\ Contents' = Append(Tail(Contents), nextVal)]_vars

\* C6: root package, blocking mode: a caller parked in Write, WriteMany,
\* GetOne, GetN or GetNView that runs again once the buffer is closed returns
\* io.EOF and neither stores nor removes an item.
C6_CloseCancelsWaiters ==
  [][\A p \in Procs :
       (closed /\ pc[p] = "woken" /\ pc'[p] # "woken") =>
          /\ pc'[p] = "idle"
          /\ ret'.err = "EOF"
          /\ UNCHANGED <<buf, r, w, isFull>>]_vars

CheckedAfterClose ==
  {"Write", "WriteMany", "GetOne", "GetN", "PeekOne", "PeekN",
   "GetAllView", "GetNView", "PeekNView"}

\* C7: root package: a call of Write, WriteMany (non-empty), GetOne, GetN,
\* PeekOne, PeekN, GetAllView, GetNView or PeekNView (valid n) that is made
\* after Close has returned, returns io.EOF.
C7_ClosedIsSticky ==
  ( /\ closed
    /\ ret.op \in CheckedAfterClose
    /\ ~ret.waited
    /\ ret.err # "ErrInvalidLength"
    /\ ~(ret.op = "WriteMany" /\ ret.err = "nil" /\ ret.n = 0) )
  => ret.err = "EOF"

\* C8: pkg/ringbuffer: after Close a GetOne returns a non-nil error, so that a
\* reader looping on GetOne until an error terminates.
C8_GetOneFailsAfterClose ==
  (closed /\ ~panicked /\ ret.op = "GetOne") => ret.err # "nil"

\* C9: root package, blocking mode, positive timeouts: a Write or GetOne
\* returns DeadlineExceeded only after it has been parked and its duration has
\* passed, leaving r, w, isFull and the storage as they are; a Write never
\* returns nil while the buffer stays full; and every parked caller returns.
C9_Timeout ==
  /\ [][\A p \in Procs :
          /\ (pc'[p] = "idle" /\ pc[p] # "idle" /\ ret'.err = "DeadlineExceeded") =>
                /\ pc[p] = "woken"
                /\ timer[p] \in {"due", "fired"}
                /\ UNCHANGED <<buf, r, w, isFull>>
          /\ ((Write(p) \/ GetOne(p)) /\ pc'[p] = "idle") =>
                ret'.err # "DeadlineExceeded"
          /\ (WriteResume(p) /\ isFull) =>
                (pc'[p] = "wait" \/ ret'.err = "DeadlineExceeded")
          /\ (GetOneResume(p) /\ IsEmptyBuf) =>
                (pc'[p] = "wait" \/ ret'.err = "DeadlineExceeded")]_vars
  /\ \A p \in Procs : (pc[p] # "idle") ~> (pc[p] = "idle")

\* a Write parked on a full buffer that nobody drained has returned DeadlineExceeded
C9_Witness ==
  /\ ret.op = "Write" /\ ret.err = "DeadlineExceeded" /\ ret.waited
  /\ isFull /\ returned = <<>>

\* C10: root package: at every operation boundary the positions are inside
\* the storage, isFull implies r = w, and the number of items stored and not
\* yet consumed is size when isFull and (w - r + size) mod size otherwise;
\* isFull holds exactly when size items are held.
C10_PositionsAndCount ==
  /\ r \in 0..(size - 1)
  /\ w \in 0..(size - 1)
  /\ isFull => r = w
  /\ nItems = (IF isFull THEN size ELSE (w - r + size) % size)
  /\ isFull <=> nItems = size

\* a full buffer whose run starts inside the storage and wraps, after items were consumed
C10_Witness ==
  /\ isFull /\ r = w /\ r > 0
  /\ nItems = size /\ Len(returned) > 0

\* Capacity() of the root package
Capacity == size

\* C11: root package: at every operation boundary, under any interleaving of
\* Write, WriteMany, GetOne, GetN, the view operations and Close,
\* Length() + Free() = Capacity().
C11_LengthPlusFree == Length + Free = Capacity

C13_FlushEmpties ==
  /\ [](ret.op \in {"Flush", "Reset"} =>
          /\ ret.err = "nil"
          /\ IsEmptyBuf /\ ~isFull /\ PkgLength = 0
          /\ ret.told = FALSE /\ ret.n = 0)
  /\ [][\A p \in Procs :
          (ret.op \in {"Flush", "Reset"} /\ ~paused /\ PkgWrite(p)) =>
             /\ pc'[p] = "idle" /\ ret'.err = "nil"
             /\ PkgLength' = 1]_vars

WriteManyItems(p) ==
  IF pc[p] = "woken" THEN arg[p].items
  ELSE [i \in 1..(nextVal' - nextVal) |-> nextVal + i - 1]

\* C15: root package: under every interleaving with other Write, WriteMany and
\* GetOne calls a WriteMany(items) that returns has either returned
\* (len(items), nil) with all its items appended to the FIFO, contiguous and in
\* order, or (0, err) with nothing stored; while it is parked it has stored
\* nothing; the count is never strictly between 0 and len(items).
C15_WriteManyAllOrNothing ==
  [][\A p \in Procs :
       (WriteMany(p) \/ WriteManyResume(p)) =>
          IF pc'[p] = "idle"
          THEN /\ ret'.op = "WriteMany"
               /\ \/ /\ ret'.err = "nil" /\ ret'.n = Len(WriteManyItems(p))
                     /\ Contents' = Contents \o WriteManyItems(p)
                     /\ stored' = stored \o WriteManyItems(p)
                  \/ /\ ret'.err # "nil" /\ ret'.n = 0
                     /\ UNCHANGED <<buf, r, w, isFull>>
                     /\ stored' = stored
          ELSE /\ UNCHANGED <<buf, r, w, isFull>>
               /\ stored' = stored]_vars

\* capacity 2: Write(1), WriteMany(2, 3) parked, GetOne took 1, and the
\* WriteMany returned (2, nil): 2 and 3 are held, wrapped past the end
C15_Witness ==
  /\ size = 2
  /\ ret.op = "WriteMany" /\ ret.err = "nil" /\ ret.n = 2 /\ ret.waited
  /\ returned = <<1>> /\ Contents = <<2, 3>> /\ r = 1

\* a step of the WriteMany of goroutine p in which its current Write returns nil
PkgWriteManyWrites(p) ==
  /\ PkgWriteManyStep(p) \/ PkgWriteManyResume(p) \/ PkgWriteManySpin(p)
  /\ pc'[p] \in {"many", "idle"}
  /\ pc'[p] = "idle" => ret'.err = "nil"

FirstN(q, n) == SubSeq(q, 1, n)
DropN(q, n) == SubSeq(q, n + 1, Len(q))

\* GetN(n) of goroutine p runs with n >= 1 on an open buffer: it either takes
\* the n oldest items or takes nothing
GetNAllOrNothing(p, n) ==
  IF n > Length
  THEN /\ UNCHANGED <<buf, r, w, isFull>> /\ returned' = returned
       /\ IF block
          THEN pc'[p] = "wait"
          ELSE pc'[p] = "idle" /\ ret'.err = "ErrIsEmpty" /\ ret'.items = <<>>
  ELSE /\ pc'[p] = "idle"
       /\ ret'.op = "GetN" /\ ret'.err = "nil"
       /\ ret'.items = FirstN(Contents, n)
       /\ Contents' = DropN(Contents, n)
       /\ returned' = returned \o FirstN(Contents, n)

\* C17: root package: GetN(n) never returns a partial result.  With fewer
\* than n items held it parks (blocking mode) or returns ErrIsEmpty
\* (non-blocking mode) and removes nothing; otherwise it returns exactly the n
\* oldest items in FIFO order and removes them; and in blocking mode a parked
\* GetN(n) does not stay parked while n items are held: not when every
\* goroutine is idle or parked, and not forever.
C17_GetNNeverPartial ==
  /\ [][\A p \in Procs :
          /\ \A n \in 1..(MaxSize + 1) : GetNOf(p, n) => GetNAllOrNothing(p, n)
          /\ GetNResume(p) => GetNAllOrNothing(p, arg[p].n)]_vars
  /\ [](Quiescent =>
          \A p \in Procs : (pc[p] = "wait" /\ op[p] = "GetN") => Length < arg[p].n)
  /\ \A p \in Procs :
       (pc[p] # "idle" /\ op[p] = "GetN" /\ Length >= arg[p].n)
         ~> (pc[p] = "idle" \/ Length < arg[p].n)

\* the view returned by this step is the n oldest items, split where the run
\* from the read position meets the end of the storage
ViewIsOldest(n) ==
  /\ ret'.err = "nil"
  /\ ret'.items \o ret'.part2 = FirstN(Contents, n)
  /\ (ret'.part2 # <<>>) <=> (r + n > size)
  /\ IF r + n > size
     THEN /\ ret'.items = Slice(buf, r, size)
          /\ ret'.part2 = Slice(buf, 0, n - (size - r))
     ELSE /\ ret'.items = Slice(buf, r, r + n)
          /\ ret'.part2 = <<>>

\* C18: both packages: GetNView(n) with 1 <= n <= Length() and GetAllView on
\* a buffer that is not empty return part1, part2 such that part1 followed by
\* part2 is the n (all) oldest items in FIFO order; part2 is not empty exactly
\* when the run crosses the end of the storage, and then part1 goes from the
\* read position to the end of the storage and part2 starts at index 0.
C18_ViewParts ==
  [][\A p \in Procs :
       IF IsRoot
       THEN /\ \A n \in 1..MaxSize :
                 ( /\ GetNViewOf(p, n) \/ (GetNViewResume(p) /\ arg[p].n = n)
                   /\ n <= Length ) => ViewIsOldest(n)
            /\ (GetAllView(p) /\ ~IsEmptyBuf) => ViewIsOldest(Length)
       ELSE /\ \A n \in 1..MaxSize :
                 (PkgGetNViewOf(p, n) /\ n <= PkgLength) => ViewIsOldest(n)
            /\ (PkgGetAllView(p) /\ ~IsEmptyBuf) => ViewIsOldest(PkgLength)]_vars

\* pkg/ringbuffer, capacity 2, full with the run starting at index 1:
\* GetNView(2) returned <<2>> and <<3>>
C18_Witness ==
  /\ ~IsRoot /\ size = 2 /\ r = 1 /\ isFull
  /\ ret.op = "GetNView" /\ ret.err = "nil" /\ ret.n = 2
  /\ ret.items = <<2>> /\ ret.part2 = <<3>>

\* a Get*View call of goroutine p returns in this step
GetViewReturns(p) ==
  /\ IF IsRoot
     THEN GetNView(p) \/ GetNViewResume(p) \/ GetAllView(p)
     ELSE PkgGetNView(p) \/ PkgGetAllView(p)
  /\ pc'[p] = "idle"
  /\ ret'.op \in {"GetNView", "GetAllView"}

\* C19: both packages: a Get*View that succeeds consumes what it returns:
\* Length() drops by the number of items returned, the items left are the
\* former items without the returned ones (so the next GetOne returns the item
\* after them), and after GetAllView the buffer is empty with isFull cleared.
C19_ViewsConsume ==
  [][\A p \in Procs :
       (GetViewReturns(p) /\ ret'.err = "nil") =>
          LET n == Len(ret'.items) + Len(ret'.part2)
          IN /\ PkgLength' = PkgLength - n
             /\ Contents' = DropN(Contents, n)
             /\ ~isFull'
             /\ ret'.op = "GetAllView" => IsEmptyBuf']_vars

\* the view call of this step failed with e: no part is returned and the
\* positions, the full flag and the items held are as before
ViewFailed(p, e) ==
  /\ pc'[p] = "idle"
  /\ ret'.err = e
  /\ ret'.items = <<>> /\ ret'.part2 = <<>>
  /\ UNCHANGED <<buf, r, w, isFull>>
  /\ Contents' = Contents

\* C20: both packages: GetNView(n) with n <= 0 or n > capacity returns
\* ErrInvalidLength and no part; in non-blocking mode GetNView (valid n),
\* GetAllView and PeekNView on an empty buffer return ErrIsEmpty and no part;
\* each of these failed calls leaves r, w, isFull and the contents unchanged.
C20_ViewErrors ==
  [][\A p \in Procs :
       IF IsRoot
       THEN /\ \A n \in (0 - 1)..(MaxSize + 1) :
                 /\ (GetNViewOf(p, n) /\ (n <= 0 \/ n > size)) =>
                       ViewFailed(p, "ErrInvalidLength")
                 /\ ( /\ ~block /\ IsEmptyBuf
                      /\ \/ GetNViewOf(p, n) /\ n \in 1..size
                         \/ PeekNViewOf(p, n) /\ n >= 1 ) =>
                       ViewFailed(p, "ErrIsEmpty")
            /\ (~block /\ IsEmptyBuf /\ GetAllView(p)) => ViewFailed(p, "ErrIsEmpty")
       ELSE /\ \A n \in (0 - 1)..(MaxSize + 1) :
                 /\ (PkgGetNViewOf(p, n) /\ (n <= 0 \/ n > size)) =>
                       ViewFailed(p, "ErrInvalidLength")
                 /\ (~block /\ IsEmptyBuf /\ PkgGetNViewOf(p, n) /\ n \in 1..size) =>
                       ViewFailed(p, "ErrIsEmpty")
            /\ (~block /\ IsEmptyBuf /\ PkgGetAllView(p)) => ViewFailed(p, "ErrIsEmpty")]_vars

\* goroutine p makes a PeekOne, PeekN or PeekNView call in this step
PeekStep(p) == PeekOne(p) \/ PeekN(p) \/ PeekNView(p)

\* C21: root package: PeekOne, PeekN and PeekNView leave r, w, isFull, err and
\* the items stored as they were, whether they succeed or fail; Length() is the
\* same before and after; and a peek that follows the same peek with no
\* operation returning in between returns the same result.
C21_PeeksChangeNothing ==
  [][\A p \in Procs :
       /\ PeekStep(p) =>
             /\ UNCHANGED <<buf, r, w, isFull, err>>
             /\ Contents' = Contents
             /\ Length' = Length
             /\ stored' = stored /\ returned' = returned
       /\ (PeekOne(p) /\ ret.op = "PeekOne") => ret' = ret
       /\ \A n \in 1..(MaxSize + 1) :
            /\ (PeekNOf(p, n) /\ ret.op = "PeekN" /\ ret.n = n) => ret' = ret
            /\ (PeekNViewOf(p, n) /\ ret.op = "PeekNView" /\ ret.n = n) => ret' = ret]_vars

\* capacity 2, full with the run starting at index 1: PeekNView(2) returned
\* <<2>> and <<3>>, and 2 and 3 are still held
C21_Witness ==
  /\ IsRoot /\ size = 2 /\ r = 1 /\ isFull
  /\ ret.op = "PeekNView" /\ ret.err = "nil" /\ ret.n = 2
  /\ ret.items = <<2>> /\ ret.part2 = <<3>>
  /\ Contents = <<2, 3>> /\ Length = 2

\* what n successive GetOne calls return: buf[r], then r = (r + 1) % size
NextByGetOne(n) == [i \in 1..n |-> buf[Advance(r, i - 1)]]

\* C22: root package: at every read position, the wrapped run and the full
\* state with r = w included, PeekN(n) with 1 <= n <= Length() returns the n
\* oldest items in FIFO order, the sequence that n successive GetOne calls
\* would return, and PeekNView(n) returns parts whose concatenation is that
\* sequence.
C22_PeekNOldest ==
  [][\A p \in Procs : \A n \in 1..MaxSize :
       /\ (PeekNOf(p, n) /\ n <= Length) =>
             /\ ret'.err = "nil"
             /\ ret'.items = NextByGetOne(n)
             /\ ret'.items = FirstN(Contents, n)
       /\ (PeekNViewOf(p, n) /\ n <= Length) =>
             /\ ret'.err = "nil"
             /\ ret'.items \o ret'.part2 = NextByGetOne(n)
             /\ ret'.items \o ret'.part2 = FirstN(Contents, n)]_vars

\* capacity 2, full with r = w = 1: PeekN(2) returned 2, 3
C22_Witness ==
  /\ size = 2 /\ r = 1 /\ w = 1 /\ isFull
  /\ ret.op = "PeekN" /\ ret.err = "nil" /\ ret.items = <<2, 3>>

TryUnchanged ==
  /\ UNCHANGED <<buf, r, w, isFull>>
  /\ Contents' = Contents
  /\ stored' = stored /\ returned' = returned

\* the outcome of a TryWrite or TryRead step of goroutine p; refused: the
\* buffer is in a state where TryWrite, respectively TryRead, returns false
TryOutcome(p, writeRefused, readRefused) ==
  /\ PkgTryWrite(p) =>
        /\ pc'[p] = "idle" /\ ret'.op = "TryWrite"
        /\ IF writeRefused
           THEN ret'.err = "false" /\ TryUnchanged
           ELSE /\ ret'.err = "true"
                /\ Contents' = Append(IF isFull THEN Tail(Contents) ELSE Contents, nextVal)
                /\ stored' = Append(stored, nextVal)
  /\ PkgTryRead(p) =>
        /\ pc'[p] = "idle" /\ ret'.op = "TryRead"
        /\ IF readRefused
           THEN ret'.err = "false" /\ ret'.items = <<Zero>> /\ TryUnchanged
           ELSE /\ ret'.err = "true"
                /\ ret'.items = <<Head(Contents)>>
                /\ Contents' = Tail(Contents)
                /\ returned' = Append(returned, Head(Contents))

TryWriteOverwrites(p) ==
  /\ pc'[p] = "idle"
  /\ ret'.op = "TryWrite" /\ ret'.err = "true"
  /\ Contents' = Append(Tail(Contents), nextVal)
  /\ isFull' /\ r' = w' /\ PkgLength' = size

C26_CloseIdempotent ==
  [][\A p \in Procs :
       Close(p) =>
          /\ ret'.op = "Close" /\ ret'.err = "nil"
          /\ err' = "EOF"
          /\ IF err = "EOF"
             THEN /\ UNCHANGED <<buf, size, r, w, isFull, err>>
                  /\ UNCHANGED <<blockedReaders, blockedWriters, readCond, writeCond, pc>>
                  /\ Contents' = Contents /\ Length' = Length
             ELSE /\ Length' = 0 /\ IsEmptyBuf'
                  /\ r' = 0 /\ w' = 0 /\ ~isFull'
                  /\ Contents' = <<>>]_vars

\* a Close of a closed buffer has returned: the item that a writer woken by
\* the first Close had stored is still held, so this Close changed nothing
C26_Witness ==
  /\ IsRoot /\ closed /\ err = "EOF"
  /\ ret.op = "Close" /\ ret.err = "nil"
  /\ Len(Contents) = 1 /\ Length = 0

\* C27: root package: every operation called through a nil handle returns
\* ErrNilBuffer and touches no state: Write, WriteMany (items not empty),
\* GetOne, GetN, PeekOne, PeekN, PeekNView, GetAllView and GetNView, with a
\* valid argument.
C27_NilHandle ==
  [][\A p \in Procs : \A o \in NilOps :
       NilCallOf(p, o, 1) =>
          /\ ret'.err = "ErrNilBuffer"
          /\ ~panicked'
          /\ UNCHANGED <<buf, r, w, isFull, err>>]_vars

\* C28: pkg/ringbuffer, blocking mode with a positive timeout: when the
\* bounded wait of a Write on a full buffer, or of a GetOne on an empty one,
\* times out, the caller holds the lock when it resumes and releases it exactly
\* once: r.mu is never unlocked while it is not held, no Unlock releases the
\* lock another goroutine holds, the call returns DeadlineExceeded with r, w
\* and isFull as they were, the lock is free afterwards, and the abandoned wait
\* leaves nothing behind that takes the lock and never releases it.
C28_TimeoutKeepsLockDiscipline ==
  /\ [][\A p \in Procs :
          /\ (PkgWriteTimeout(p) \/ PkgGetOneTimeout(p)) =>
                /\ mu = p
                /\ mu' = 0 /\ ~panicked'
                /\ ret'.err = "DeadlineExceeded"
                /\ UNCHANGED <<buf, r, w, isFull>>
          /\ HelperWait(p) => mu = arg[p].n]_vars
  /\ [](~panicked)
  /\ [](mu # Orphaned)

\* ---- pre-block hooks (root package) ----

\* the positions of a goroutine whose call is inside or just past its hook
HookPcs == {"hookW", "hookWT", "hookWF", "hookR", "hookRTT", "hookRTF", "hookRFT", "hookRFF"}

\* the hook of p that removes an item ran on a buffer that holds one
WriteHookFreesSpace(p) ==
  /\ PreWriteBlockHook(p) /\ preWriteBlockHook = "GetOne" /\ Contents # <<>>

\* Write of p comes back from a hook that returned true, with its attempt
\* left, and finds room
WriteRetryFindsRoom(p) ==
  /\ WriteAfterHook(p) /\ pc[p] = "hookWT" /\ arg[p].n > 0 /\ ~isFull

\* the hook of p that writes an item ran on a buffer that has room
ReadHookWrites(p) ==
  /\ PreReadBlockHook(p) /\ preReadBlockHook = "Write" /\ ~isFull

\* GetOne of p comes back from a hook that asked for a retry, with its attempt
\* left, and finds an item
GetOneRetryFindsItem(p) ==
  /\ GetOneAfterHook(p) /\ HookTryAgain(p) /\ arg[p].n > 0 /\ Contents # <<>>

\* C29: a pre-block hook runs with the lock of the buffer released, so the
\* GetOne or Write it makes on the same buffer goes through, and the lock is
\* taken again before fullness or emptiness is rechecked, so the recheck sees
\* what the hook did: when the pre-write hook removed an item and returned
\* true, the Write that finds room on its recheck stores its item and returns
\* nil; when the pre-read hook wrote an item and asked for a retry, the GetOne
\* that finds the buffer non-empty on its recheck returns the oldest item,
\* which is the hook's item when nothing else is stored.
C29_HooksRunUnlocked ==
  /\ [](\A p \in Procs : pc[p] \in HookPcs => mu = 0)
  /\ [][\A p \in Procs :
          /\ WriteHookFreesSpace(p) =>
               /\ Contents' = Tail(Contents)
               /\ returned' = Append(returned, Head(Contents))
               /\ pc'[p] = "hookWT"
          /\ WriteRetryFindsRoom(p) =>
               /\ pc'[p] = "idle"
               /\ ret'.op = "Write" /\ ret'.err = "nil"
               /\ Contents' = Append(Contents, arg[p].items[1])
          /\ ReadHookWrites(p) =>
               /\ Contents' = Append(Contents, nextVal)
               /\ arg'[p].items = <<nextVal>>
               /\ pc'[p] = "hookRTT"
          /\ GetOneRetryFindsItem(p) =>
               /\ pc'[p] = "idle"
               /\ ret'.op = "GetOne" /\ ret'.err = "nil"
               /\ ret'.items = <<Head(Contents)>>
               /\ Contents' = Tail(Contents)
               /\ (Contents = arg[p].items => ret'.items = arg[p].items)
       ]_vars

\* a Write on a full buffer of two slots returned nil after its hook had
\* removed the oldest item
C29_Witness ==
  /\ IsRoot /\ preWriteBlockHook = "GetOne" /\ ~block /\ size = 2
  /\ ret.op = "Write" /\ ret.err = "nil"
  /\ stored = <<1, 2, 3>> /\ returned = <<1>> /\ Contents = <<2, 3>>

\* C30: a call gets one retry from its pre-block hook: the attempts of a call
\* never go up, the call goes back to its hook from the recheck only by
\* spending its one attempt, and a Write whose hook returned true with no
\* attempt left, or returned false, takes the full path: ErrIsFull in
\* non-blocking mode, a wait on the condition in blocking mode; a GetOne whose
\* hook returned (nil, false, false) returns ErrIsEmpty in non-blocking mode.
C30_RetryOnce ==
  [][\A p \in Procs :
       /\ (op[p] = op'[p] /\ op[p] \in {"Write", "GetOne"}) => arg'[p].n <= arg[p].n
       /\ (WriteAfterHook(p) /\ pc'[p] = "hookW") =>
            /\ pc[p] = "hookWT" /\ arg[p].n = 1 /\ arg'[p].n = 0
       /\ (GetOneAfterHook(p) /\ pc'[p] = "hookR") =>
            /\ HookTryAgain(p) /\ arg[p].n = 1 /\ arg'[p].n = 0
       /\ (WriteAfterHook(p) /\ (pc[p] = "hookWF" \/ arg[p].n = 0)) =>
            IF block
            THEN pc'[p] = "wait" /\ p \in readCond' /\ UNCHANGED <<bufVars, ret>>
            ELSE /\ pc'[p] = "idle"
                 /\ ret'.op = "Write" /\ ret'.err = "ErrIsFull"
                 /\ UNCHANGED bufVars
       /\ (GetOneAfterHook(p) /\ pc[p] = "hookRFF" /\ ~block) =>
            /\ pc'[p] = "idle"
            /\ ret'.op = "GetOne" /\ ret'.err = "ErrIsEmpty"
            /\ UNCHANGED bufVars
    ]_vars

\* a non-blocking Write returned ErrIsFull on a buffer whose hook always
\* returns true
C30_Witness ==
  /\ IsRoot /\ preWriteBlockHook = "true" /\ ~block
  /\ ret.op = "Write" /\ ret.err = "ErrIsFull"
  /\ isFull /\ \A p \in Procs : pc[p] = "idle"

\* ---- pre-block hooks (pkg/ringbuffer) ----

\* C31: in blocking mode a Write on a full buffer whose pre-write-block hook
\* reports success without freeing space comes back to the head of its loop
\* from the hook at most once: it then waits on the condition variable
\* instead of calling the hook again.
C31_PkgHookRetryOnce ==
  \A p \in Procs : (~IsRoot /\ op[p] = "Write" /\ pc[p] = "preW") => arg[p].n <= 1

\* the number of goroutines suspended on a condition variable inside a write
\* and inside a read
SuspendedWriters == Cardinality({p \in Procs : pc[p] = "wait" /\ op[p] \in {"Write", "WriteMany"}})
SuspendedReaders == Cardinality({p \in Procs : pc[p] = "wait" /\ op[p] = "GetOne"})

\* C32: the blocked counters of pkg/ringbuffer never go below 0, and whenever
\* every goroutine is idle or suspended on a condition variable,
\* GetBlockedWriters() is the number of suspended writers and
\* GetBlockedReaders() the number of suspended readers.
C32_BlockedCountersExact ==
  /\ blockedWriters >= 0 /\ blockedReaders >= 0
  /\ Quiescent => (blockedWriters = SuspendedWriters /\ blockedReaders = SuspendedReaders)

\* ---- suspended callers and the state of the buffer (root package) ----

\* C33: in blocking mode, whenever every goroutine is idle or suspended on a
\* condition variable, a goroutine suspended in Write means the buffer is full
\* and a goroutine suspended in GetOne means the buffer is empty, bulk
\* operations included.
C33_SuspendedMeansBlocked ==
  (IsRoot /\ block /\ err = "nil" /\ Quiescent) =>
     \A p \in Procs :
        pc[p] = "wait" => /\ op[p] = "Write" => isFull
                          /\ op[p] = "GetOne" => IsEmptyBuf

\* ---- wake-ups by TryWrite, TryRead and Read (pkg/ringbuffer) ----

\* the goroutines suspended on a condition variable inside GetOne and inside Write
WaitingInGetOne == {q \in Procs : pc[q] = "wait" /\ op[q] = "GetOne"}
WaitingInWrite == {q \in Procs : pc[q] = "wait" /\ op[q] = "Write"}

\* C34: in blocking mode without timeout an operation that changes the
\* occupancy wakes a waiter of the other side: a TryWrite that stored an item
\* while goroutines are suspended in GetOne wakes one of them, and a TryRead or
\* Read that removed an item while goroutines are suspended in Write wakes one
\* of them.
C34_OccupancyChangeWakes ==
  [][\A p \in Procs :
       /\ (PkgTryWrite(p) /\ stored' # stored /\ WaitingInGetOne # {}) =>
             \E q \in WaitingInGetOne : pc'[q] = "woken"
       /\ (PkgTryRead(p) /\ returned' # returned /\ WaitingInWrite # {}) =>
             \E q \in WaitingInWrite : pc'[q] = "woken"
       /\ ((PkgRead(p) \/ PkgReadResume(p)) /\ returned' # returned /\ WaitingInWrite # {}) =>
             \E q \in WaitingInWrite : pc'[q] = "woken"
    ]_vars

\* ---- the paused interval (pkg/ringbuffer) ----

\* C35: while the buffer is paused no item is stored and no item is removed:
\* a step that starts and ends with the buffer paused leaves the items ever
\* stored and the items ever handed out as they are, whoever takes it.
C35_PausedTransfersNothing ==
  [][(~IsRoot /\ paused /\ paused') => (stored' = stored /\ returned' = returned)]_vars

\* ---- Read on an empty buffer (pkg/ringbuffer) ----

\* C36: in blocking mode without timeout and without hooks Read never returns
\* ErrIsEmpty, and a Read that returns nil after it had to wait returns at
\* least one item, the oldest ones first.
C36_ReadBlocksUntilData ==
  (~IsRoot /\ block /\ NoHooks /\ ret.op = "Read") =>
     /\ ret.err # "ErrIsEmpty"
     /\ (ret.err = "nil" /\ ret.waited) => ret.n >= 1

\* ---- requests larger than the capacity (root package) ----

\* C37: a request for more slots than the buffer has is answered with an
\* error, in blocking mode too: no goroutine is suspended in WriteMany with
\* more items than the capacity, nor in GetN or GetNView with n above the
\* capacity.
C37_OversizeNeverSuspends ==
  \A p \in Procs :
     (IsRoot /\ pc[p] = "wait") =>
        /\ op[p] = "WriteMany" => Len(arg[p].items) <= size
        /\ op[p] \in {"GetN", "GetNView"} => arg[p].n <= size

\* ---- the single lock (root package) ----

\* C38: the positions, the full flag and the storage are read and written only
\* by the goroutine that holds the lock: no goroutine is inside a public
\* operation that accesses them while another goroutine holds the lock.
C38_StateAccessedUnderLock ==
  \A p \in Procs : (IsRoot /\ pc[p] = "clear") => mu \in {0, p}

\* ---- condition variables that were never created (pkg/ringbuffer) ----

\* C39: on a buffer on which blocking was never enabled no operation uses the
\* nil condition variables: Flush, Reset, Close and Read complete without a
\* runtime failure.
C39_NoNilCondUse ==
  (~IsRoot /\ ~block) => (~panicked /\ ret.err # "panic")

\* ---- non-blocking mode (both packages) ----

\* the positions of a goroutine that waits, or is about to wait or has
\* waited, on a condition variable
WaitPcs == {"wait", "woken", "preW", "preR", "select", "loop"}

\* a call of goroutine p returned in this step with one of the results in errs
ReturnedWith(p, o, errs) ==
  /\ pc'[p] = "idle"
  /\ ret'.op = o /\ ret'.err \in errs

\* C40: with blocking disabled and no timeout configured nobody ever waits on
\* a condition variable, in either package: Write, WriteMany, GetOne, GetN and
\* GetNView of the root package, and Write and GetOne of pkg/ringbuffer,
\* return in the step that took the lock, with nil or with the Full / Empty
\* (or length) error, and each step of the loops of WriteMany and GetN of
\* pkg/ringbuffer returns or moves one item.
C40_NonBlockingNeverWaits ==
  /\ [](\A p \in Procs : pc[p] \notin WaitPcs)
  /\ [](readCond = {} /\ writeCond = {})
  /\ [][\A p \in Procs :
          /\ Write(p) => ReturnedWith(p, "Write", {"nil", "ErrIsFull"})
          /\ WriteMany(p) => ReturnedWith(p, "WriteMany", {"nil", "ErrIsFull"})
          /\ GetOne(p) => ReturnedWith(p, "GetOne", {"nil", "ErrIsEmpty"})
          /\ GetN(p) => ReturnedWith(p, "GetN", {"nil", "ErrIsEmpty", "ErrInvalidLength"})
          /\ GetNView(p) =>
               ReturnedWith(p, "GetNView", {"nil", "ErrIsEmpty", "ErrInvalidLength"})
          /\ PkgWrite(p) => ReturnedWith(p, "Write", {"nil", "ErrIsFull"})
          /\ PkgGetOne(p) => ReturnedWith(p, "GetOne", {"nil", "ErrIsEmpty"})
          /\ PkgWriteManyStep(p) =>
               \/ ReturnedWith(p, "WriteMany", {"nil", "ErrIsFull"})
               \/ pc'[p] = "many" /\ Len(arg'[p].items) = Len(arg[p].items) - 1
          /\ PkgGetNStep(p) =>
               \/ ReturnedWith(p, "GetN", {"nil", "ErrIsEmpty"})
               \/ /\ pc'[p] = "many" /\ Len(arg'[p].items) = Len(arg[p].items) + 1
                  /\ Len(arg'[p].items) < arg[p].n
       ]_vars

\* a Write of the root package on a full buffer in non-blocking mode, with no
\* hook registered, returned ErrIsFull
C40_Witness ==
  /\ IsRoot /\ ~block /\ NoHooks /\ rTimeout = 0 /\ wTimeout = 0
  /\ ret.op = "Write" /\ ret.err = "ErrIsFull" /\ ~ret.waited
  /\ isFull /\ Len(Contents) = size

====
